---- MODULE Spec2Model ----
(***************************************************************************)
(* Token management and request dispatch of the QPay V2 client             *)
(* (src/qpay/client.py, class QPayClient; AsyncQPayClient has the same     *)
(* statements with awaits at the lock and at the network calls).           *)
(*                                                                         *)
(* Callers are threads sharing one client.  A step of a caller is one of   *)
(* the statements of the code that touches shared state (the lock, one of  *)
(* the four token fields) or that issues or completes one network call.    *)
(* The server is the environment: it answers every call with any outcome.  *)
(*                                                                         *)
(* The module also holds the transport the client uses and closes, the     *)
(* translation of one HTTP response into a result or an error              *)
(* (src/qpay/errors.py), and QPayConfig.from_env (src/qpay/config.py).     *)
(***************************************************************************)
EXTENDS Integers, FiniteSets, Sequences, TLC

\* ------------------------------------------------------------------ bounds
\* Last instant of the clock (the clock starts at 0).
MaxNow == 1
\* Public operations the callers may start, in total.
MaxOps == 2
\* Successful token responses the server may issue.
MaxIssued == 2
\* Calls of close() and exits of the `with` block, in total.
MaxClose == 2

\* --------------------------------------------------------------- constants
\* _TOKEN_BUFFER_SECONDS
TOKEN_BUFFER_SECONDS == 30

Callers == {"t1", "t2"}
\* threading.Lock() not held by anyone
Unlocked == "unlocked"

\* Token strings of the n-th successful token response.
AccessTokens == <<"access-1", "access-2", "access-3", "access-4">>
RefreshTokens == <<"refresh-1", "refresh-2", "refresh-3", "refresh-4">>

\* Expiry instants a server declares: one that makes a token usable at
\* instant 0 only, one that makes it usable at every instant of the clock.
Expiries == {TOKEN_BUFFER_SECONDS + 1, TOKEN_BUFFER_SECONDS + MaxNow + 1}

\* ------------------------------------------------------------ TokenResponse
\* dict.get(key, default)
Get(data, key, default) == IF key \in DOMAIN data THEN data[key] ELSE default

\* TokenResponse.from_dict: every absent field takes its default.
from_dict(data) ==
    [ access_token       |-> Get(data, "access_token", ""),
      refresh_token      |-> Get(data, "refresh_token", ""),
      expires_in         |-> Get(data, "expires_in", 0),
      refresh_expires_in |-> Get(data, "refresh_expires_in", 0) ]

\* JSON bodies of a 2xx answer of a token endpoint: the full shape of
\* make_token_response, and an object that carries none of the token fields.
FullBody(n, e, re) ==
    [ token_type         |-> "bearer",
      access_token       |-> AccessTokens[n],
      refresh_token      |-> RefreshTokens[n],
      expires_in         |-> e,
      refresh_expires_in |-> re ]

BareBody == [ token_type |-> "bearer" ]

TokenBodies(n) ==
    { FullBody(n, e, re) : e \in Expiries, re \in Expiries } \cup { BareBody }

\* TokenResponse(): the dataclass defaults
NoToken == from_dict(BareBody)

\* ------------------------------------------------------------------- errors
NoError == [ endpoint |-> "", kind |-> "" ]
\* QPayError.from_response(status, body) raised for a non-2xx answer of
\* `endpoint`, or the transport's own exception.
FailureKinds == {"QPayError", "TransportError"}
Failure(endpoint, kind) == [ endpoint |-> endpoint, kind |-> kind ]

\* ------------------------------------------------------------ HTTP responses
\* Status codes a server answers with: the edges of [200, 300), statuses
\* that have a phrase and statuses that have none.
Statuses == {199, 200, 204, 299, 300, 401, 404, 500, 999}

\* http.HTTPStatus(status_code).phrase, for the statuses that have one.
Phrases ==
    [ s \in {200, 204, 300, 401, 404, 500} |->
        CASE s = 200 -> "OK"
          [] s = 204 -> "No Content"
          [] s = 300 -> "Multiple Choices"
          [] s = 401 -> "Unauthorized"
          [] s = 404 -> "Not Found"
          [] s = 500 -> "Internal Server Error" ]

\* Response bodies (response.content).
AuthFailedBody ==
    "{\"error\":\"AUTHENTICATION_FAILED\",\"message\":\"Bad credentials\"}"
NotFoundBody ==
    "{\"error\":\"INVOICE_NOTFOUND\",\"message\":\"Invoice not found\"}"
OnlyErrorBody == "{\"error\":\"PERMISSION_DENIED\"}"
OnlyMessageBody == "{\"message\":\"try again\"}"
EmptyFieldsBody == "{\"error\":\"\",\"message\":\"\"}"
OtherFieldsBody == "{\"other\":\"data\"}"
TextBody == "Internal Server Error"
NullBody == "null"
ArrayBody == "[]"
\* A body that is not UTF-8, and its text after errors="replace".
InvalidUtf8Body == "<0xFF>"
ReplacementText == "<U+FFFD>"

Contents ==
    { "", AuthFailedBody, NotFoundBody, OnlyErrorBody, OnlyMessageBody,
      EmptyFieldsBody, OtherFieldsBody, TextBody, NullBody, ArrayBody,
      InvalidUtf8Body }

\* The JSON objects among the bodies, as json.loads decodes them.
JsonObjects ==
    [ b \in { AuthFailedBody, NotFoundBody, OnlyErrorBody, OnlyMessageBody,
              EmptyFieldsBody, OtherFieldsBody } |->
        CASE b = AuthFailedBody ->
               [ error |-> "AUTHENTICATION_FAILED",
                 message |-> "Bad credentials" ]
          [] b = NotFoundBody ->
               [ error |-> "INVOICE_NOTFOUND",
                 message |-> "Invoice not found" ]
          [] b = OnlyErrorBody -> [ error |-> "PERMISSION_DENIED" ]
          [] b = OnlyMessageBody -> [ message |-> "try again" ]
          [] b = EmptyFieldsBody -> [ error |-> "", message |-> "" ]
          [] b = OtherFieldsBody -> [ other |-> "data" ] ]

\* json.loads(body): an object, a value that is not an object (None, a
\* list), or json.JSONDecodeError / UnicodeDecodeError (both ValueError).
json_loads(body) ==
    IF body \in DOMAIN JsonObjects
       THEN [ kind |-> "object", data |-> JsonObjects[body] ]
    ELSE IF body \in {NullBody, ArrayBody}
       THEN [ kind |-> "value", data |-> body ]
    ELSE [ kind |-> "ValueError", data |-> body ]

\* body.decode("utf-8", errors="replace")
decode(body) == IF body = InvalidUtf8Body THEN ReplacementText ELSE body

\* QPayError(status_code=, code=, message=, raw_body=)
QPayError(status, code, message, raw_body) ==
    [ kind |-> "QPayError", status_code |-> status, code |-> code,
      message |-> message, raw_body |-> raw_body ]

\* An exception that is not a QPayError.
OtherError(kind) ==
    [ kind |-> kind, status_code |-> 0, code |-> "", message |-> "",
      raw_body |-> "" ]

\* QPayError.from_response(status_code, body): the error it returns, or the
\* AttributeError of data.get on a decoded value that is not an object,
\* which `except (json.JSONDecodeError, ValueError)` does not catch.
from_response(status, body) ==
    LET raw_body == decode(body)
        loaded == json_loads(body)
        code == IF loaded.kind = "ValueError" THEN ""
                ELSE Get(loaded.data, "error", "")
        message == IF loaded.kind = "ValueError" THEN ""
                   ELSE Get(loaded.data, "message", "")
    IN  IF loaded.kind = "value" THEN OtherError("AttributeError")
        ELSE QPayError(status,
                       IF code # "" THEN code
                       ELSE IF status \in DOMAIN Phrases THEN Phrases[status]
                       ELSE ToString(status),
                       IF message # "" THEN message ELSE raw_body,
                       raw_body)

\* --------------------------------------------------------------- QPayConfig
\* env_map: the required variables, in the order of the dict, and the field
\* each one sets.
EnvNames ==
    << "QPAY_BASE_URL", "QPAY_USERNAME", "QPAY_PASSWORD", "QPAY_INVOICE_CODE",
       "QPAY_CALLBACK_URL" >>

env_map ==
    [ n \in { EnvNames[i] : i \in DOMAIN EnvNames } |->
        CASE n = "QPAY_BASE_URL" -> "base_url"
          [] n = "QPAY_USERNAME" -> "username"
          [] n = "QPAY_PASSWORD" -> "password"
          [] n = "QPAY_INVOICE_CODE" -> "invoice_code"
          [] n = "QPAY_CALLBACK_URL" -> "callback_url" ]

\* Values a variable that is set may have.
EnvValues == {"", "a", "b"}

\* os.environ: any of the variables set, to any of the values.
Environs == UNION { [S -> EnvValues] : S \in SUBSET DOMAIN env_map }

\* ', '.join(names), as the sequence of its pieces.
RECURSIVE Join(_)
Join(names) ==
    IF Len(names) = 0 THEN << >>
    ELSE IF Len(names) = 1 THEN << names[1] >>
    ELSE << names[1], ", " >> \o Join(Tail(names))

\* ValueError(f"Required environment variable(s) not set: {...}")
ConfigError(missing) ==
    [ kind |-> "ValueError",
      message |->
        << "Required environment variable(s) not set: " >> \o Join(missing) ]

\* from_env that stops at the first variable that is not set.
from_env_first_missing(env) ==
    LET val(n) == Get(env, n, "")
        missing == SelectSeq(EnvNames, LAMBDA n : val(n) = "")
        values == [ f \in { env_map[n] : n \in DOMAIN env_map } |->
                      val(CHOOSE n \in DOMAIN env_map : env_map[n] = f) ]
    IN  IF missing # << >>
           THEN [ state |-> "raised", value |-> "",
                  error |-> ConfigError(<< missing[1] >>) ]
           ELSE [ state |-> "returned", value |-> values, error |-> NoError ]

\* QPayConfig.from_env: val = os.environ.get(env_name, "") for every entry
\* of env_map; the names whose val is empty are collected in `missing`;
\* one ValueError when there is any, else cls(**values).
from_env(env) ==
    LET val(n) == Get(env, n, "")
        missing == SelectSeq(EnvNames, LAMBDA n : val(n) = "")
        values == [ f \in { env_map[n] : n \in DOMAIN env_map } |->
                      val(CHOOSE n \in DOMAIN env_map : env_map[n] = f) ]
    IN  IF missing # << >>
           THEN [ state |-> "raised", value |-> "",
                  error |-> ConfigError(missing) ]
           ELSE [ state |-> "returned", value |-> values, error |-> NoError ]

\* -------------------------------------------------------------------- state
VARIABLES
    now,                 \* int(time.time())
    lock,                \* self._lock: its holder, or Unlocked
    access_token,        \* self._access_token
    refresh_token,       \* self._refresh_token
    expires_at,          \* self._expires_at
    refresh_expires_at,  \* self._refresh_expires_at
    pc,                  \* each caller's position in the code
    op,                  \* the public operation each caller is in
    token,               \* local `token`: the TokenResponse in hand
    req,                 \* the network call each caller has in flight
    result,              \* how each caller's last operation ended
    via,                 \* how the caller's _ensure_token has gone so far
    swallowed,           \* the exception `except Exception: pass` discarded
    nAuth,               \* authenticate calls issued in the current operation
    nRefresh,            \* refresh calls issued in the current operation
    nResource,           \* resource requests issued in the current operation
    writes,              \* token fields written in the current operation
    before,              \* the token fields when the call in flight was issued
    ensure_refresh_tok,  \* local `refresh_tok` of _ensure_token
    builtValid,          \* was the bearer usable when the request was built
    opsDone,             \* public operations started so far
    issued,              \* the successful token responses, in issue order
    http,                \* self._http: the transport the client uses
    owns_http,           \* self._owns_http
    http_closed,         \* has the transport self._http been closed
    nClose,              \* calls of close() and __exit__ so far
    httpCloses,          \* calls of self._http.close() so far
    status_code,         \* response.status_code of the response in hand
    content,             \* response.content of the response in hand
    outcome,             \* what the handler of that response returned/raised
    entered,             \* is the client inside its `with` block
    environ,             \* os.environ
    config               \* what QPayConfig.from_env returned or raised

tokenVars == <<access_token, refresh_token, expires_at, refresh_expires_at>>
callerVars == <<pc, op, token, req, result, via, swallowed, nAuth, nRefresh,
                nResource, writes, before, builtValid, opsDone>>
httpVars == <<http, owns_http, http_closed, nClose, httpCloses, entered>>
wireVars == <<status_code, content, outcome>>
envVars == <<environ, config>>
localVars == <<ensure_refresh_tok>>
otherVars == <<httpVars, wireVars, envVars, localVars>>
vars == <<now, lock, access_token, refresh_token, expires_at,
          refresh_expires_at, pc, op, token, req, result, via, swallowed,
          nAuth, nRefresh, nResource, writes, before, builtValid, opsDone,
          issued, http, owns_http, http_closed, nClose, httpCloses,
          status_code, content, outcome, entered, environ, config,
          ensure_refresh_tok>>

\* The four fields as one value.
TokenState ==
    [ access_token       |-> access_token,
      refresh_token      |-> refresh_token,
      expires_in         |-> expires_at,
      refresh_expires_in |-> refresh_expires_at ]

NoRequest == [ endpoint |-> "", auth |-> "" ]
NoResult == [ state |-> "none", value |-> "", error |-> NoError ]
Returned(v) == [ state |-> "returned", value |-> v, error |-> NoError ]
Raised(err) == [ state |-> "raised", value |-> "", error |-> err ]

\* QPayClient.__init__: the lock, the token fields; no caller has called.
ClientInit ==
    /\ now = 0
    /\ lock = Unlocked
    /\ access_token = ""
    /\ refresh_token = ""
    /\ expires_at = 0
    /\ refresh_expires_at = 0
    /\ pc = [c \in Callers |-> "idle"]
    /\ op = [c \in Callers |-> "none"]
    /\ token = [c \in Callers |-> NoToken]
    /\ req = [c \in Callers |-> NoRequest]
    /\ result = [c \in Callers |-> NoResult]
    /\ via = [c \in Callers |-> "none"]
    /\ swallowed = [c \in Callers |-> NoError]
    /\ nAuth = [c \in Callers |-> 0]
    /\ nRefresh = [c \in Callers |-> 0]
    /\ nResource = [c \in Callers |-> 0]
    /\ writes = [c \in Callers |-> 0]
    /\ before = [c \in Callers |-> NoToken]
    /\ ensure_refresh_tok = [c \in Callers |-> ""]
    /\ builtValid = [c \in Callers |-> FALSE]
    /\ opsDone = 0
    /\ issued = <<>>

\* http_client=None
None == "None"

\* HttpInit that takes every transport for the client's own.
HttpInitOwnsAlways(http_client) ==
    /\ http = IF http_client # None THEN http_client ELSE "created"
    /\ owns_http = TRUE
    /\ http_closed = FALSE
    /\ nClose = 0
    /\ httpCloses = 0
    /\ entered = FALSE

\* QPayClient.__init__: self._http = http_client or httpx.Client(...);
\* self._owns_http = http_client is None
HttpInit(http_client) ==
    /\ http = IF http_client # None THEN http_client ELSE "created"
    /\ owns_http = (http_client = None)
    /\ http_closed = FALSE
    /\ nClose = 0
    /\ httpCloses = 0
    /\ entered = FALSE

\* No response is in hand.
NoOutcome == [ handler |-> "", result |-> NoResult ]
WireIdle == status_code = 0 /\ content = "" /\ outcome = NoOutcome

\* QPayConfig.from_env has not been called.
EnvIdle == environ = << >> /\ config = NoResult

\* A client constructed without http_client, not yet used.
Init == ClientInit /\ HttpInit(None) /\ WireIdle /\ EnvIdle

\* ------------------------------------------------------------ the decisions
\* TokenUsable with `or` for `and`.
TokenUsableOr(tok, exp, t) == tok = "" \/ t < exp - TOKEN_BUFFER_SECONDS

\* The comparison of TokenUsable turned round.
TokenUsableReversed(tok, exp, t) ==
    tok # "" /\ t > exp - TOKEN_BUFFER_SECONDS

\* TokenUsable whose comparison admits now = expiry - BUFFER.
TokenUsableNonStrict(tok, exp, t) ==
    tok # "" /\ t <= exp - TOKEN_BUFFER_SECONDS

\* _ensure_token: self._access_token and now < self._expires_at - BUFFER
TokenUsable(tok, exp, t) == tok # "" /\ t < exp - TOKEN_BUFFER_SECONDS

\* CanRefresh that looks only at whether a refresh token is stored.
CanRefreshIgnoresExpiry(rtok, rexp, t) == rtok # ""

\* _ensure_token: bool(self._refresh_token)
\*                and now < self._refresh_expires_at - BUFFER
CanRefresh(rtok, rexp, t) == rtok # "" /\ t < rexp - TOKEN_BUFFER_SECONDS

\* Authorization of the three kinds of call.
BasicAuth == "basic:username:password"
AuthRequest == [ endpoint |-> "/v2/auth/token", auth |-> BasicAuth ]
RefreshRequest(refresh_tok) ==
    [ endpoint |-> "/v2/auth/refresh", auth |-> refresh_tok ]
ResourceRequest(bearer) == [ endpoint |-> "resource", auth |-> bearer ]

Upd(f, c, v) == [f EXCEPT ![c] = v]

\* A public operation begins: the per-operation records start afresh.
Begin(c, name) ==
    /\ pc[c] = "idle"
    /\ opsDone < MaxOps
    /\ op' = Upd(op, c, name)
    /\ opsDone' = opsDone + 1
    /\ result' = Upd(result, c, NoResult)
    /\ via' = Upd(via, c, "none")
    /\ swallowed' = Upd(swallowed, c, NoError)
    /\ nRefresh' = Upd(nRefresh, c, 0)
    /\ nResource' = Upd(nResource, c, 0)
    /\ writes' = Upd(writes, c, 0)
    /\ builtValid' = Upd(builtValid, c, FALSE)
    /\ token' = Upd(token, c, NoToken)

\* --------------------------------------------------------------- get_token
\* get_token: token = self._get_token_request()   (the call is issued)
GetTokenCall(c) ==
    /\ Begin(c, "get_token")
    /\ pc' = Upd(pc, c, "gt_wait")
    /\ req' = Upd(req, c, AuthRequest)
    /\ nAuth' = Upd(nAuth, c, 1)
    /\ before' = Upd(before, c, TokenState)
    /\ UNCHANGED <<otherVars, now, lock, tokenVars, issued>>

\* ----------------------------------------------------------- refresh_token
\* refresh_token begins and waits for the lock.
RefreshTokenBegin(c) ==
    /\ Begin(c, "refresh_token")
    /\ pc' = Upd(pc, c, "rt_acquire")
    /\ nAuth' = Upd(nAuth, c, 0)
    /\ UNCHANGED <<otherVars, now, lock, tokenVars, req, before, issued>>

\* refresh_token: with self._lock:
RefreshTokenAcquire(c) ==
    /\ pc[c] = "rt_acquire"
    /\ lock = Unlocked
    /\ lock' = c
    /\ pc' = Upd(pc, c, "rt_read")
    /\ UNCHANGED <<otherVars, now, tokenVars, op, token, req, result, via,
                   swallowed, nAuth, nRefresh, nResource, writes, before,
                   builtValid, opsDone, issued>>

\* RefreshTokenRead with the refresh call inside the with block: the lock
\* stays held while the call is in flight.
RefreshTokenReadKeepsLock(c) ==
    /\ pc[c] = "rt_read"
    /\ req' = Upd(req, c, RefreshRequest(refresh_token))
    /\ nRefresh' = Upd(nRefresh, c, nRefresh[c] + 1)
    /\ before' = Upd(before, c, TokenState)
    /\ pc' = Upd(pc, c, "rt_wait")
    /\ UNCHANGED <<otherVars, now, lock, tokenVars, op, token, result, via,
                   swallowed, nAuth, nResource, writes, builtValid, opsDone,
                   issued>>

\* RefreshTokenRead with the guard of _ensure_token: without a refresh
\* token inside its margin it authenticates instead.
RefreshTokenReadGuarded(c) ==
    /\ pc[c] = "rt_read"
    /\ lock' = Unlocked
    /\ before' = Upd(before, c, TokenState)
    /\ IF CanRefresh(refresh_token, refresh_expires_at, now)
          THEN /\ req' = Upd(req, c, RefreshRequest(refresh_token))
               /\ nRefresh' = Upd(nRefresh, c, nRefresh[c] + 1)
               /\ pc' = Upd(pc, c, "rt_wait")
               /\ UNCHANGED nAuth
          ELSE /\ req' = Upd(req, c, AuthRequest)
               /\ nAuth' = Upd(nAuth, c, nAuth[c] + 1)
               /\ pc' = Upd(pc, c, "gt_wait")
               /\ UNCHANGED nRefresh
    /\ UNCHANGED <<otherVars, now, tokenVars, op, token, result, via,
                   swallowed, nResource, writes, builtValid, opsDone, issued>>

\* refresh_token: refresh_tok = self._refresh_token; the lock is released
\* and self._do_refresh_token_http(refresh_tok) issues the call.
RefreshTokenRead(c) ==
    /\ pc[c] = "rt_read"
    /\ lock' = Unlocked
    /\ req' = Upd(req, c, RefreshRequest(refresh_token))
    /\ nRefresh' = Upd(nRefresh, c, nRefresh[c] + 1)
    /\ before' = Upd(before, c, TokenState)
    /\ pc' = Upd(pc, c, "rt_wait")
    /\ UNCHANGED <<otherVars, now, tokenVars, op, token, result, via,
                   swallowed, nAuth, nResource, writes, builtValid, opsDone,
                   issued>>

\* ------------------------------------------------------- the token endpoints
\* TokenCallReturns that hands the token to _do_request without
\* _store_token.
TokenCallReturnsSkipsStore(c, body) ==
    /\ token' = Upd(token, c, from_dict(body))
    /\ issued' = Append(issued, from_dict(body))
    /\ req' = Upd(req, c, NoRequest)
    /\ pc' = Upd(pc, c, IF op[c] = "request" THEN "build" ELSE "st_acquire")

\* _do_basic_auth_request / _do_refresh_token_http: the status is 2xx and
\* TokenResponse.from_dict(response.json()) is returned to the caller, whose
\* next statement is `with self._lock:` before _store_token.
TokenCallReturns(c, body) ==
    /\ token' = Upd(token, c, from_dict(body))
    /\ issued' = Append(issued, from_dict(body))
    /\ req' = Upd(req, c, NoRequest)
    /\ pc' = Upd(pc, c, "st_acquire")

\* The exception of a failed call leaves the public operation.
Raise(c, err) ==
    /\ result' = Upd(result, c, Raised(err))
    /\ req' = Upd(req, c, NoRequest)
    /\ before' = Upd(before, c, NoToken)
    /\ pc' = Upd(pc, c, "idle")

\* POST /v2/auth/token answers 2xx with one of `bodies` (get_token, or the
\* last step of _ensure_token).
AuthOkWith(c, bodies) ==
    /\ pc[c] \in {"gt_wait", "en_auth_wait"}
    /\ Len(issued) < MaxIssued
    /\ \E body \in bodies : TokenCallReturns(c, body)
    /\ via' = Upd(via, c, IF op[c] = "request" THEN "auth" ELSE via[c])
    /\ UNCHANGED <<otherVars, now, lock, tokenVars, op, result, swallowed,
                   nAuth, nRefresh, nResource, writes, before, builtValid,
                   opsDone>>

AuthOk(c) == AuthOkWith(c, TokenBodies(Len(issued) + 1))

\* The authenticate endpoint answers 2xx with a non-empty access token.
AuthOkNonEmpty(c) ==
    AuthOkWith(c, { body \in TokenBodies(Len(issued) + 1) :
                       from_dict(body).access_token # "" })

\* AuthFail that also forgets the stored access token.
AuthFailClears(c) ==
    /\ pc[c] \in {"gt_wait", "en_auth_wait"}
    /\ \E kind \in FailureKinds : Raise(c, Failure("/v2/auth/token", kind))
    /\ via' = Upd(via, c, IF op[c] = "request" THEN "failed" ELSE via[c])
    /\ access_token' = ""
    /\ UNCHANGED <<otherVars, now, lock, refresh_token, expires_at,
                   refresh_expires_at, op, token, swallowed, nAuth, nRefresh,
                   nResource, writes, builtValid, opsDone, issued>>

\* AuthFail whose exception _do_request discards: the operation goes on to
\* build and send its request.
AuthFailContinues(c) ==
    /\ pc[c] \in {"gt_wait", "en_auth_wait"}
    /\ via' = Upd(via, c, IF op[c] = "request" THEN "failed" ELSE via[c])
    /\ req' = Upd(req, c, NoRequest)
    /\ before' = Upd(before, c, NoToken)
    /\ IF op[c] = "request"
          THEN /\ pc' = Upd(pc, c, "build")
               /\ result' = result
          ELSE /\ pc' = Upd(pc, c, "idle")
               /\ \E kind \in FailureKinds :
                     result' = Upd(result, c,
                                   Raised(Failure("/v2/auth/token", kind)))
    /\ UNCHANGED <<otherVars, now, lock, tokenVars, op, token, swallowed,
                   nAuth, nRefresh, nResource, writes, builtValid, opsDone,
                   issued>>

\* POST /v2/auth/token fails: QPayError.from_response is raised, or the
\* transport raises; neither get_token nor _ensure_token catches it.
AuthFail(c) ==
    /\ pc[c] \in {"gt_wait", "en_auth_wait"}
    /\ \E kind \in FailureKinds : Raise(c, Failure("/v2/auth/token", kind))
    /\ via' = Upd(via, c, IF op[c] = "request" THEN "failed" ELSE via[c])
    /\ UNCHANGED <<otherVars, now, lock, tokenVars, op, token, swallowed,
                   nAuth, nRefresh, nResource, writes, builtValid, opsDone,
                   issued>>

\* POST /v2/auth/refresh answers 2xx (refresh_token, or the try block of
\* _ensure_token).
RefreshOk(c) ==
    /\ pc[c] \in {"rt_wait", "en_refresh_wait"}
    /\ Len(issued) < MaxIssued
    /\ \E body \in TokenBodies(Len(issued) + 1) : TokenCallReturns(c, body)
    /\ via' = Upd(via, c, IF op[c] = "request" THEN "refresh" ELSE via[c])
    /\ UNCHANGED <<otherVars, now, lock, tokenVars, op, result, swallowed,
                   nAuth, nRefresh, nResource, writes, before, builtValid,
                   opsDone>>

\* RefreshTokenFail that discards the failure and authenticates instead, as
\* _ensure_token does.
RefreshTokenFailFallsBack(c) ==
    /\ pc[c] = "rt_wait"
    /\ \E kind \in FailureKinds :
          swallowed' = Upd(swallowed, c, Failure("/v2/auth/refresh", kind))
    /\ req' = Upd(req, c, AuthRequest)
    /\ nAuth' = Upd(nAuth, c, nAuth[c] + 1)
    /\ before' = Upd(before, c, TokenState)
    /\ pc' = Upd(pc, c, "gt_wait")
    /\ UNCHANGED <<otherVars, now, lock, tokenVars, op, token, result, via,
                   nRefresh, nResource, writes, builtValid, opsDone, issued>>

\* refresh_token: the failure of the refresh call reaches the caller.
RefreshTokenFail(c) ==
    /\ pc[c] = "rt_wait"
    /\ \E kind \in FailureKinds : Raise(c, Failure("/v2/auth/refresh", kind))
    /\ UNCHANGED <<otherVars, now, lock, tokenVars, op, token, via, swallowed,
                   nAuth, nRefresh, nResource, writes, builtValid, opsDone,
                   issued>>

\* EnsureRefreshFail without the try block: the failure of the refresh call
\* leaves _ensure_token and the operation.
EnsureRefreshFailRaises(c) ==
    /\ pc[c] = "en_refresh_wait"
    /\ \E kind \in FailureKinds : Raise(c, Failure("/v2/auth/refresh", kind))
    /\ via' = Upd(via, c, "failed")
    /\ UNCHANGED <<otherVars, now, lock, tokenVars, op, token, swallowed,
                   nAuth, nRefresh, nResource, writes, builtValid, opsDone,
                   issued>>

\* EnsureRefreshFail with `except QPayError` for `except Exception`: what
\* the transport raises leaves _ensure_token and the operation.
EnsureRefreshFailCatchesApiOnly(c) ==
    /\ pc[c] = "en_refresh_wait"
    /\ \E kind \in FailureKinds :
          IF kind = "QPayError"
             THEN /\ swallowed' =
                        Upd(swallowed, c, Failure("/v2/auth/refresh", kind))
                  /\ req' = Upd(req, c, AuthRequest)
                  /\ nAuth' = Upd(nAuth, c, nAuth[c] + 1)
                  /\ before' = Upd(before, c, TokenState)
                  /\ pc' = Upd(pc, c, "en_auth_wait")
                  /\ UNCHANGED <<result, via>>
             ELSE /\ Raise(c, Failure("/v2/auth/refresh", kind))
                  /\ via' = Upd(via, c, "failed")
                  /\ UNCHANGED <<swallowed, nAuth>>
    /\ UNCHANGED <<otherVars, now, lock, tokenVars, op, token, nRefresh,
                   nResource, writes, builtValid, opsDone, issued>>

\* _ensure_token: `except Exception: pass`, then
\* token = self._get_token_request() issues the authenticate call.
EnsureRefreshFail(c) ==
    /\ pc[c] = "en_refresh_wait"
    /\ \E kind \in FailureKinds :
          swallowed' = Upd(swallowed, c, Failure("/v2/auth/refresh", kind))
    /\ req' = Upd(req, c, AuthRequest)
    /\ nAuth' = Upd(nAuth, c, nAuth[c] + 1)
    /\ before' = Upd(before, c, TokenState)
    /\ pc' = Upd(pc, c, "en_auth_wait")
    /\ UNCHANGED <<otherVars, now, lock, tokenVars, op, token, result, via,
                   nRefresh, nResource, writes, builtValid, opsDone, issued>>

\* ------------------------------------------------------------- _store_token
\* StoreAcquire without the with block: _store_token runs unlocked.
StoreAcquireNoLock(c) ==
    /\ pc[c] = "st_acquire"
    /\ pc' = Upd(pc, c, "st_access")
    /\ UNCHANGED <<otherVars, now, lock, tokenVars, op, token, req, result,
                   via, swallowed, nAuth, nRefresh, nResource, writes, before,
                   builtValid, opsDone, issued>>

\* `with self._lock:` before self._store_token(token)
StoreAcquire(c) ==
    /\ pc[c] = "st_acquire"
    /\ lock = Unlocked
    /\ lock' = c
    /\ pc' = Upd(pc, c, "st_access")
    /\ UNCHANGED <<otherVars, now, tokenVars, op, token, req, result, via,
                   swallowed, nAuth, nRefresh, nResource, writes, before,
                   builtValid, opsDone, issued>>

\* StoreAccess that keeps an access token that is already stored.
StoreAccessIfEmpty(c) ==
    /\ pc[c] = "st_access"
    /\ access_token' =
          IF access_token = "" THEN token[c].access_token ELSE access_token
    /\ writes' = Upd(writes, c, writes[c] + 1)
    /\ pc' = Upd(pc, c, "st_refresh")
    /\ UNCHANGED <<otherVars, now, lock, refresh_token, expires_at,
                   refresh_expires_at, op, token, req, result, via, swallowed,
                   nAuth, nRefresh, nResource, before, builtValid, opsDone,
                   issued>>

\* self._access_token = token.access_token
StoreAccess(c) ==
    /\ pc[c] = "st_access"
    /\ access_token' = token[c].access_token
    /\ writes' = Upd(writes, c, writes[c] + 1)
    /\ pc' = Upd(pc, c, "st_refresh")
    /\ UNCHANGED <<otherVars, now, lock, refresh_token, expires_at,
                   refresh_expires_at, op, token, req, result, via, swallowed,
                   nAuth, nRefresh, nResource, before, builtValid, opsDone,
                   issued>>

\* StoreRefresh that assigns the access token of the response.
StoreRefreshFromAccess(c) ==
    /\ pc[c] = "st_refresh"
    /\ refresh_token' = token[c].access_token
    /\ writes' = Upd(writes, c, writes[c] + 1)
    /\ pc' = Upd(pc, c, "st_expires")
    /\ UNCHANGED <<otherVars, now, lock, access_token, expires_at,
                   refresh_expires_at, op, token, req, result, via, swallowed,
                   nAuth, nRefresh, nResource, before, builtValid, opsDone,
                   issued>>

\* self._refresh_token = token.refresh_token
StoreRefresh(c) ==
    /\ pc[c] = "st_refresh"
    /\ refresh_token' = token[c].refresh_token
    /\ writes' = Upd(writes, c, writes[c] + 1)
    /\ pc' = Upd(pc, c, "st_expires")
    /\ UNCHANGED <<otherVars, now, lock, access_token, expires_at,
                   refresh_expires_at, op, token, req, result, via, swallowed,
                   nAuth, nRefresh, nResource, before, builtValid, opsDone,
                   issued>>

\* StoreExpires that takes expires_in for a duration from now.
StoreExpiresFromNow(c) ==
    /\ pc[c] = "st_expires"
    /\ expires_at' = now + token[c].expires_in
    /\ writes' = Upd(writes, c, writes[c] + 1)
    /\ pc' = Upd(pc, c, "st_refresh_expires")
    /\ UNCHANGED <<otherVars, now, lock, access_token, refresh_token,
                   refresh_expires_at, op, token, req, result, via, swallowed,
                   nAuth, nRefresh, nResource, before, builtValid, opsDone,
                   issued>>

\* self._expires_at = token.expires_in
StoreExpires(c) ==
    /\ pc[c] = "st_expires"
    /\ expires_at' = token[c].expires_in
    /\ writes' = Upd(writes, c, writes[c] + 1)
    /\ pc' = Upd(pc, c, "st_refresh_expires")
    /\ UNCHANGED <<otherVars, now, lock, access_token, refresh_token,
                   refresh_expires_at, op, token, req, result, via, swallowed,
                   nAuth, nRefresh, nResource, before, builtValid, opsDone,
                   issued>>

\* StoreRefreshExpires that takes refresh_expires_in for a duration from
\* now.
StoreRefreshExpiresFromNow(c) ==
    /\ pc[c] = "st_refresh_expires"
    /\ refresh_expires_at' = now + token[c].refresh_expires_in
    /\ writes' = Upd(writes, c, writes[c] + 1)
    /\ lock' = Unlocked
    /\ before' = Upd(before, c, NoToken)
    /\ IF op[c] = "request"
          THEN /\ pc' = Upd(pc, c, "build")
               /\ token' = Upd(token, c, NoToken)
               /\ result' = result
          ELSE /\ pc' = Upd(pc, c, "idle")
               /\ token' = token
               /\ result' = Upd(result, c, Returned("token"))
    /\ UNCHANGED <<otherVars, now, access_token, refresh_token, expires_at,
                   op, req, via, swallowed, nAuth, nRefresh, nResource,
                   builtValid, opsDone, issued>>

\* StoreRefreshExpires without the `return` that follows the store of a
\* refreshed pair: _ensure_token goes on to the authenticate call.
StoreRefreshExpiresNoReturn(c) ==
    /\ pc[c] = "st_refresh_expires"
    /\ refresh_expires_at' = token[c].refresh_expires_in
    /\ writes' = Upd(writes, c, writes[c] + 1)
    /\ lock' = Unlocked
    /\ IF op[c] = "request" /\ via[c] = "refresh"
          THEN /\ pc' = Upd(pc, c, "en_auth_wait")
               /\ req' = Upd(req, c, AuthRequest)
               /\ nAuth' = Upd(nAuth, c, nAuth[c] + 1)
               /\ before' = Upd(before, c,
                    [TokenState EXCEPT !.refresh_expires_in =
                                          token[c].refresh_expires_in])
               /\ token' = Upd(token, c, NoToken)
               /\ result' = result
          ELSE /\ before' = Upd(before, c, NoToken)
               /\ UNCHANGED <<req, nAuth>>
               /\ IF op[c] = "request"
                     THEN /\ pc' = Upd(pc, c, "build")
                          /\ token' = Upd(token, c, NoToken)
                          /\ result' = result
                     ELSE /\ pc' = Upd(pc, c, "idle")
                          /\ token' = token
                          /\ result' = Upd(result, c, Returned("token"))
    /\ UNCHANGED <<otherVars, now, access_token, refresh_token, expires_at,
                   op, via, swallowed, nRefresh, nResource, builtValid,
                   opsDone, issued>>

\* self._refresh_expires_at = token.refresh_expires_in; the with block ends
\* and the lock is released.  get_token and refresh_token return the token;
\* _ensure_token returns to _do_request.
StoreRefreshExpires(c) ==
    /\ pc[c] = "st_refresh_expires"
    /\ refresh_expires_at' = token[c].refresh_expires_in
    /\ writes' = Upd(writes, c, writes[c] + 1)
    /\ lock' = Unlocked
    /\ before' = Upd(before, c, NoToken)
    /\ IF op[c] = "request"
          THEN /\ pc' = Upd(pc, c, "build")
               /\ token' = Upd(token, c, NoToken)
               /\ result' = result
          ELSE /\ pc' = Upd(pc, c, "idle")
               /\ token' = token
               /\ result' = Upd(result, c, Returned("token"))
    /\ UNCHANGED <<otherVars, now, access_token, refresh_token, expires_at,
                   op, req, via, swallowed, nAuth, nRefresh, nResource,
                   builtValid, opsDone, issued>>

\* ------------------------------------------------------------ _ensure_token
\* _do_request begins: self._ensure_token() waits for the lock.
RequestBegin(c) ==
    /\ Begin(c, "request")
    /\ pc' = Upd(pc, c, "en_acquire")
    /\ nAuth' = Upd(nAuth, c, 0)
    /\ UNCHANGED <<otherVars, now, lock, tokenVars, req, before, issued>>

\* EnsureAcquire that does not wait for the lock to be free.
EnsureAcquireNoWait(c) ==
    /\ pc[c] = "en_acquire"
    /\ lock' = c
    /\ pc' = Upd(pc, c, "en_check")
    /\ UNCHANGED <<otherVars, now, tokenVars, op, token, req, result, via,
                   swallowed, nAuth, nRefresh, nResource, writes, before,
                   builtValid, opsDone, issued>>

\* _ensure_token: with self._lock:
EnsureAcquire(c) ==
    /\ pc[c] = "en_acquire"
    /\ lock = Unlocked
    /\ lock' = c
    /\ pc' = Upd(pc, c, "en_check")
    /\ UNCHANGED <<otherVars, now, tokenVars, op, token, req, result, via,
                   swallowed, nAuth, nRefresh, nResource, writes, before,
                   builtValid, opsDone, issued>>

\* EnsureCheck whose early return leaves the lock held.
EnsureCheckReturnsLocked(c) ==
    /\ pc[c] = "en_check"
    /\ IF TokenUsable(access_token, expires_at, now)
          THEN /\ pc' = Upd(pc, c, "build")
               /\ via' = Upd(via, c, "cached")
               /\ UNCHANGED <<lock, req, nAuth, nRefresh, before>>
          ELSE IF CanRefresh(refresh_token, refresh_expires_at, now)
          THEN /\ lock' = Unlocked
               /\ pc' = Upd(pc, c, "en_refresh_wait")
               /\ req' = Upd(req, c, RefreshRequest(refresh_token))
               /\ nRefresh' = Upd(nRefresh, c, nRefresh[c] + 1)
               /\ before' = Upd(before, c, TokenState)
               /\ UNCHANGED <<via, nAuth>>
          ELSE /\ lock' = Unlocked
               /\ pc' = Upd(pc, c, "en_auth_wait")
               /\ req' = Upd(req, c, AuthRequest)
               /\ nAuth' = Upd(nAuth, c, nAuth[c] + 1)
               /\ before' = Upd(before, c, TokenState)
               /\ UNCHANGED <<via, nRefresh>>
    /\ UNCHANGED <<otherVars, now, tokenVars, op, token, result, swallowed,
                   nResource, writes, builtValid, opsDone, issued>>

\* _ensure_token, the body of the first with block: now = int(time.time());
\* return when the access token is usable; else can_refresh and refresh_tok
\* are taken, the lock is released, and the refresh call (can_refresh) or
\* the authenticate call is issued.
EnsureCheck(c) ==
    /\ pc[c] = "en_check"
    /\ lock' = Unlocked
    /\ IF TokenUsable(access_token, expires_at, now)
          THEN /\ pc' = Upd(pc, c, "build")
               /\ via' = Upd(via, c, "cached")
               /\ UNCHANGED <<req, nAuth, nRefresh, before>>
          ELSE IF CanRefresh(refresh_token, refresh_expires_at, now)
          THEN /\ pc' = Upd(pc, c, "en_refresh_wait")
               /\ req' = Upd(req, c, RefreshRequest(refresh_token))
               /\ nRefresh' = Upd(nRefresh, c, nRefresh[c] + 1)
               /\ before' = Upd(before, c, TokenState)
               /\ UNCHANGED <<via, nAuth>>
          ELSE /\ pc' = Upd(pc, c, "en_auth_wait")
               /\ req' = Upd(req, c, AuthRequest)
               /\ nAuth' = Upd(nAuth, c, nAuth[c] + 1)
               /\ before' = Upd(before, c, TokenState)
               /\ UNCHANGED <<via, nRefresh>>
    /\ UNCHANGED <<otherVars, now, tokenVars, op, token, result, swallowed,
                   nResource, writes, builtValid, opsDone, issued>>

\* -------------------------------------------------------------- _do_request
\* _do_request after _ensure_token returned: the headers are built from
\* self._access_token (read without the lock) and the request is sent.
BuildAndSend(c) ==
    /\ pc[c] = "build"
    /\ req' = Upd(req, c, ResourceRequest(access_token))
    /\ nResource' = Upd(nResource, c, nResource[c] + 1)
    /\ builtValid' = Upd(builtValid, c,
                         access_token # "" /\ now < expires_at - 30)
    /\ pc' = Upd(pc, c, "rs_wait")
    /\ UNCHANGED <<otherVars, now, lock, tokenVars, op, token, result, via,
                   swallowed, nAuth, nRefresh, writes, before, opsDone,
                   issued>>

\* The resource endpoint answers 2xx: response.json() when the body is not
\* empty, {} when it is.
ResourceOk(c) ==
    /\ pc[c] = "rs_wait"
    /\ \E body \in {"json", ""} :
          result' = Upd(result, c, Returned(IF body # "" THEN body ELSE "{}"))
    /\ req' = Upd(req, c, NoRequest)
    /\ pc' = Upd(pc, c, "idle")
    /\ UNCHANGED <<otherVars, now, lock, tokenVars, op, token, via, swallowed,
                   nAuth, nRefresh, nResource, writes, before, builtValid,
                   opsDone, issued>>

\* ResourceFail that ensures a token again and sends the request again.
ResourceFailRetries(c) ==
    /\ pc[c] = "rs_wait"
    /\ req' = Upd(req, c, NoRequest)
    /\ pc' = Upd(pc, c, "en_acquire")
    /\ UNCHANGED <<otherVars, now, lock, tokenVars, op, token, result, via,
                   swallowed, nAuth, nRefresh, nResource, writes, before,
                   builtValid, opsDone, issued>>

\* ResourceFail that forgets the stored access token before it raises.
ResourceFailInvalidates(c) ==
    /\ pc[c] = "rs_wait"
    /\ \E kind \in FailureKinds : Raise(c, Failure("resource", kind))
    /\ access_token' = ""
    /\ expires_at' = 0
    /\ writes' = Upd(writes, c, writes[c] + 2)
    /\ UNCHANGED <<otherVars, now, lock, refresh_token, refresh_expires_at,
                   op, token, via, swallowed, nAuth, nRefresh, nResource,
                   builtValid, opsDone, issued>>

\* ResourceFail that catches whatever the transport raises and raises a
\* QPayError in its place.
ResourceFailConverts(c) ==
    /\ pc[c] = "rs_wait"
    /\ Raise(c, Failure("resource", "QPayError"))
    /\ UNCHANGED <<otherVars, now, lock, tokenVars, op, token, via, swallowed,
                   nAuth, nRefresh, nResource, writes, builtValid, opsDone,
                   issued>>

\* The resource endpoint answers outside [200, 300), or the transport
\* raises: the exception leaves _do_request.
ResourceFail(c) ==
    /\ pc[c] = "rs_wait"
    /\ \E kind \in FailureKinds : Raise(c, Failure("resource", kind))
    /\ UNCHANGED <<otherVars, now, lock, tokenVars, op, token, via, swallowed,
                   nAuth, nRefresh, nResource, writes, builtValid, opsDone,
                   issued>>

\* ---------------------------------------------------------------- the clock
\* time.time() advances.
Tick ==
    /\ now < MaxNow
    /\ now' = now + 1
    /\ UNCHANGED <<otherVars, lock, tokenVars, callerVars, issued>>

\* The statements a caller executes, and the answers it receives, once it
\* is inside a public operation.
Step(c) ==
    \/ RefreshTokenAcquire(c)
    \/ RefreshTokenRead(c)
    \/ EnsureAcquire(c)
    \/ EnsureCheck(c)
    \/ AuthOk(c)
    \/ AuthFail(c)
    \/ RefreshOk(c)
    \/ RefreshTokenFail(c)
    \/ EnsureRefreshFail(c)
    \/ StoreAcquire(c)
    \/ StoreAccess(c)
    \/ StoreRefresh(c)
    \/ StoreExpires(c)
    \/ StoreRefreshExpires(c)
    \/ BuildAndSend(c)
    \/ ResourceOk(c)
    \/ ResourceFail(c)

Next ==
    \/ Tick
    \/ \E c \in Callers :
          \/ GetTokenCall(c)
          \/ RefreshTokenBegin(c)
          \/ RequestBegin(c)
          \/ Step(c)

Spec == Init /\ [][Next]_vars

\* A single caller, which keeps running and whose every network call
\* returns: inside an operation it eventually takes its next step.
SingleCaller == "t1"

SingleNext ==
    \/ Tick
    \/ GetTokenCall(SingleCaller)
    \/ RefreshTokenBegin(SingleCaller)
    \/ RequestBegin(SingleCaller)
    \/ Step(SingleCaller)

SingleSpec == Init /\ [][SingleNext]_vars /\ WF_vars(Step(SingleCaller))

\* Authenticated operations only, on a new client, against an authenticate
\* endpoint that always succeeds with a non-empty access token; every
\* caller keeps running and every call returns.
FreshStep(c) ==
    \/ EnsureAcquire(c)
    \/ EnsureCheck(c)
    \/ AuthOkNonEmpty(c)
    \/ RefreshOk(c)
    \/ EnsureRefreshFail(c)
    \/ StoreAcquire(c)
    \/ StoreAccess(c)
    \/ StoreRefresh(c)
    \/ StoreExpires(c)
    \/ StoreRefreshExpires(c)
    \/ BuildAndSend(c)
    \/ ResourceOk(c)
    \/ ResourceFail(c)

FreshNext == Tick \/ \E c \in Callers : RequestBegin(c) \/ FreshStep(c)

FreshSpec ==
    Init /\ [][FreshNext]_vars /\ \A c \in Callers : WF_vars(FreshStep(c))

\* Each caller invokes one public operation, any of the three, at any
\* moment; every caller keeps running and every network call returns a
\* response or a failure, so a caller inside an operation eventually takes
\* its next step.
OnceCall(c) ==
    /\ op[c] = "none"
    /\ GetTokenCall(c) \/ RefreshTokenBegin(c) \/ RequestBegin(c)

OnceNext == Tick \/ \E c \in Callers : OnceCall(c) \/ Step(c)

OnceSpec == Init /\ [][OnceNext]_vars /\ \A c \in Callers : WF_vars(Step(c))

\* A pair obtained by a get_token that ended before the callers below begin.
EarlierBody(e, re) == FullBody(MaxIssued + 1, e, re)

\* A client that holds such a pair, no operation under way.
HoldingInit ==
    /\ now = 0
    /\ lock = Unlocked
    /\ \E e \in Expiries, re \in Expiries :
          /\ access_token = from_dict(EarlierBody(e, re)).access_token
          /\ refresh_token = from_dict(EarlierBody(e, re)).refresh_token
          /\ expires_at = from_dict(EarlierBody(e, re)).expires_in
          /\ refresh_expires_at =
                from_dict(EarlierBody(e, re)).refresh_expires_in
    /\ pc = [c \in Callers |-> "idle"]
    /\ op = [c \in Callers |-> "none"]
    /\ token = [c \in Callers |-> NoToken]
    /\ req = [c \in Callers |-> NoRequest]
    /\ result = [c \in Callers |-> NoResult]
    /\ via = [c \in Callers |-> "none"]
    /\ swallowed = [c \in Callers |-> NoError]
    /\ nAuth = [c \in Callers |-> 0]
    /\ nRefresh = [c \in Callers |-> 0]
    /\ nResource = [c \in Callers |-> 0]
    /\ writes = [c \in Callers |-> 0]
    /\ before = [c \in Callers |-> NoToken]
    /\ ensure_refresh_tok = [c \in Callers |-> ""]
    /\ builtValid = [c \in Callers |-> FALSE]
    /\ opsDone = 0
    /\ issued = <<>>
    /\ HttpInit(None)
    /\ WireIdle
    /\ EnvIdle

\* One authenticated operation of each caller on that client, against an
\* authenticate endpoint that always answers 2xx and a refresh endpoint
\* that answers either way; every caller keeps running and every call
\* returns.
RenewStep(c) ==
    \/ EnsureAcquire(c)
    \/ EnsureCheck(c)
    \/ AuthOk(c)
    \/ RefreshOk(c)
    \/ EnsureRefreshFail(c)
    \/ StoreAcquire(c)
    \/ StoreAccess(c)
    \/ StoreRefresh(c)
    \/ StoreExpires(c)
    \/ StoreRefreshExpires(c)
    \/ BuildAndSend(c)
    \/ ResourceOk(c)
    \/ ResourceFail(c)

RenewCall(c) == op[c] = "none" /\ RequestBegin(c)

RenewNext == Tick \/ \E c \in Callers : RenewCall(c) \/ RenewStep(c)

RenewSpec ==
    HoldingInit /\ [][RenewNext]_vars
       /\ \A c \in Callers : WF_vars(RenewStep(c))

\* --------------------------------- _ensure_token, statement by statement
\* _ensure_token, the body of the first with block, up to the release of
\* the lock: return when the access token is usable; else can_refresh is
\* computed and refresh_tok = self._refresh_token is taken.  No call has
\* been issued yet.
EnsureSnapshot(c) ==
    /\ pc[c] = "en_check"
    /\ lock' = Unlocked
    /\ IF TokenUsable(access_token, expires_at, now)
          THEN /\ pc' = Upd(pc, c, "build")
               /\ via' = Upd(via, c, "cached")
               /\ UNCHANGED ensure_refresh_tok
          ELSE /\ ensure_refresh_tok' =
                     Upd(ensure_refresh_tok, c, refresh_token)
               /\ pc' = Upd(pc, c,
                     IF CanRefresh(refresh_token, refresh_expires_at, now)
                        THEN "en_refresh_call" ELSE "en_auth_call")
               /\ UNCHANGED via
    /\ UNCHANGED <<httpVars, wireVars, envVars, now, tokenVars, op, token,
                   req, result, swallowed, nAuth, nRefresh, nResource, writes,
                   before, builtValid, opsDone, issued>>

\* EnsureSendRefresh that reads self._refresh_token again when it issues
\* the call.
EnsureSendRefreshRereads(c) ==
    /\ pc[c] = "en_refresh_call"
    /\ req' = Upd(req, c, RefreshRequest(refresh_token))
    /\ nRefresh' = Upd(nRefresh, c, nRefresh[c] + 1)
    /\ before' = Upd(before, c, TokenState)
    /\ pc' = Upd(pc, c, "en_refresh_wait")
    /\ UNCHANGED <<otherVars, now, lock, tokenVars, op, token, result, via,
                   swallowed, nAuth, nResource, writes, builtValid, opsDone,
                   issued>>

\* _ensure_token, `if can_refresh:` taken, the lock released:
\* self._do_refresh_token_http(refresh_tok) issues the refresh call.
EnsureSendRefresh(c) ==
    /\ pc[c] = "en_refresh_call"
    /\ req' = Upd(req, c, RefreshRequest(ensure_refresh_tok[c]))
    /\ nRefresh' = Upd(nRefresh, c, nRefresh[c] + 1)
    /\ before' = Upd(before, c, TokenState)
    /\ pc' = Upd(pc, c, "en_refresh_wait")
    /\ UNCHANGED <<otherVars, now, lock, tokenVars, op, token, result, via,
                   swallowed, nAuth, nResource, writes, builtValid, opsDone,
                   issued>>

\* _ensure_token, `if can_refresh:` not taken, the lock released:
\* self._get_token_request() issues the authenticate call.
EnsureSendAuth(c) ==
    /\ pc[c] = "en_auth_call"
    /\ req' = Upd(req, c, AuthRequest)
    /\ nAuth' = Upd(nAuth, c, nAuth[c] + 1)
    /\ before' = Upd(before, c, TokenState)
    /\ pc' = Upd(pc, c, "en_auth_wait")
    /\ UNCHANGED <<otherVars, now, lock, tokenVars, op, token, result, via,
                   swallowed, nRefresh, nResource, writes, builtValid,
                   opsDone, issued>>

\* The statements of a caller, with the snapshot of _ensure_token and the
\* issue of its call as separate steps.
SnapStep(c) ==
    \/ RefreshTokenAcquire(c)
    \/ RefreshTokenRead(c)
    \/ EnsureAcquire(c)
    \/ EnsureSnapshot(c)
    \/ EnsureSendRefresh(c)
    \/ EnsureSendAuth(c)
    \/ AuthOk(c)
    \/ AuthFail(c)
    \/ RefreshOk(c)
    \/ RefreshTokenFail(c)
    \/ EnsureRefreshFail(c)
    \/ StoreAcquire(c)
    \/ StoreAccess(c)
    \/ StoreRefresh(c)
    \/ StoreExpires(c)
    \/ StoreRefreshExpires(c)
    \/ BuildAndSend(c)
    \/ ResourceOk(c)
    \/ ResourceFail(c)

\* Each caller invokes one operation on a client that holds a pair.
SnapNext == Tick \/ \E c \in Callers : OnceCall(c) \/ SnapStep(c)

SnapSpec == HoldingInit /\ [][SnapNext]_vars

\* Positions inside a `with self._lock:` block.
LockedPcs ==
    {"rt_read", "en_check", "st_access", "st_refresh", "st_expires",
     "st_refresh_expires"}

\* Positions whose statement reads or writes a token field.
AccessPcs == LockedPcs \cup {"build"}

\* Positions at which a call to a token endpoint is in flight.
TokenWaitPcs == {"gt_wait", "rt_wait", "en_refresh_wait", "en_auth_wait"}

\* ---------------------------------------------------------- AsyncQPayClient
\* Suspended with one more await between the return of _ensure_token and
\* the statement that builds the headers.
SuspendedAlsoBeforeHeaders(c) ==
    \/ pc[c] \in {"idle", "rs_wait", "build"} \cup TokenWaitPcs
    \/ pc[c] \in {"rt_acquire", "en_acquire", "st_acquire"}
          /\ lock \notin {Unlocked, c}

\* Callers of the AsyncQPayClient are tasks of one event loop.  A task is
\* suspended when it has no operation under way, when its network call is
\* awaited, or when it waits for the lock that another task holds.
Suspended(c) ==
    \/ pc[c] \in {"idle", "rs_wait"} \cup TokenWaitPcs
    \/ pc[c] \in {"rt_acquire", "en_acquire", "st_acquire"}
          /\ lock \notin {Unlocked, c}

\* The event loop runs one task at a time: task c takes its next step only
\* while every other task is suspended.
AsyncTurn(c) == \A d \in Callers \ {c} : Suspended(d)

\* --------------------------------------------------------------- get_token
\* get_token: token = await self._get_token_request()   (the call is issued)
AsyncGetTokenCall(c) ==
    /\ AsyncTurn(c)
    /\ Begin(c, "get_token")
    /\ pc' = Upd(pc, c, "gt_wait")
    /\ req' = Upd(req, c, AuthRequest)
    /\ nAuth' = Upd(nAuth, c, 1)
    /\ before' = Upd(before, c, TokenState)
    /\ UNCHANGED <<otherVars, now, lock, tokenVars, issued>>

\* ----------------------------------------------------------- refresh_token
\* refresh_token begins and waits for the lock.
AsyncRefreshTokenBegin(c) ==
    /\ AsyncTurn(c)
    /\ Begin(c, "refresh_token")
    /\ pc' = Upd(pc, c, "rt_acquire")
    /\ nAuth' = Upd(nAuth, c, 0)
    /\ UNCHANGED <<otherVars, now, lock, tokenVars, req, before, issued>>

\* refresh_token: async with self._lock:
AsyncRefreshTokenAcquire(c) ==
    /\ AsyncTurn(c)
    /\ pc[c] = "rt_acquire"
    /\ lock = Unlocked
    /\ lock' = c
    /\ pc' = Upd(pc, c, "rt_read")
    /\ UNCHANGED <<otherVars, now, tokenVars, op, token, req, result, via,
                   swallowed, nAuth, nRefresh, nResource, writes, before,
                   builtValid, opsDone, issued>>

\* refresh_token: refresh_tok = self._refresh_token; the lock is released
\* and self._do_refresh_token_http(refresh_tok) issues the call.
AsyncRefreshTokenRead(c) ==
    /\ AsyncTurn(c)
    /\ pc[c] = "rt_read"
    /\ lock' = Unlocked
    /\ req' = Upd(req, c, RefreshRequest(refresh_token))
    /\ nRefresh' = Upd(nRefresh, c, nRefresh[c] + 1)
    /\ before' = Upd(before, c, TokenState)
    /\ pc' = Upd(pc, c, "rt_wait")
    /\ UNCHANGED <<otherVars, now, tokenVars, op, token, result, via,
                   swallowed, nAuth, nResource, writes, builtValid, opsDone,
                   issued>>

\* POST /v2/auth/token answers 2xx with one of `bodies` (get_token, or the
\* last step of _ensure_token).
AsyncAuthOkWith(c, bodies) ==
    /\ AsyncTurn(c)
    /\ pc[c] \in {"gt_wait", "en_auth_wait"}
    /\ Len(issued) < MaxIssued
    /\ \E body \in bodies : TokenCallReturns(c, body)
    /\ via' = Upd(via, c, IF op[c] = "request" THEN "auth" ELSE via[c])
    /\ UNCHANGED <<otherVars, now, lock, tokenVars, op, result, swallowed,
                   nAuth, nRefresh, nResource, writes, before, builtValid,
                   opsDone>>

AsyncAuthOk(c) == AsyncAuthOkWith(c, TokenBodies(Len(issued) + 1))

\* POST /v2/auth/token fails: QPayError.from_response is raised, or the
\* transport raises; neither get_token nor _ensure_token catches it.
AsyncAuthFail(c) ==
    /\ AsyncTurn(c)
    /\ pc[c] \in {"gt_wait", "en_auth_wait"}
    /\ \E kind \in FailureKinds : Raise(c, Failure("/v2/auth/token", kind))
    /\ via' = Upd(via, c, IF op[c] = "request" THEN "failed" ELSE via[c])
    /\ UNCHANGED <<otherVars, now, lock, tokenVars, op, token, swallowed,
                   nAuth, nRefresh, nResource, writes, builtValid, opsDone,
                   issued>>

\* POST /v2/auth/refresh answers 2xx (refresh_token, or the try block of
\* _ensure_token).
AsyncRefreshOk(c) ==
    /\ AsyncTurn(c)
    /\ pc[c] \in {"rt_wait", "en_refresh_wait"}
    /\ Len(issued) < MaxIssued
    /\ \E body \in TokenBodies(Len(issued) + 1) : TokenCallReturns(c, body)
    /\ via' = Upd(via, c, IF op[c] = "request" THEN "refresh" ELSE via[c])
    /\ UNCHANGED <<otherVars, now, lock, tokenVars, op, result, swallowed,
                   nAuth, nRefresh, nResource, writes, before, builtValid,
                   opsDone>>

\* refresh_token: the failure of the refresh call reaches the caller.
AsyncRefreshTokenFail(c) ==
    /\ AsyncTurn(c)
    /\ pc[c] = "rt_wait"
    /\ \E kind \in FailureKinds : Raise(c, Failure("/v2/auth/refresh", kind))
    /\ UNCHANGED <<otherVars, now, lock, tokenVars, op, token, via, swallowed,
                   nAuth, nRefresh, nResource, writes, builtValid, opsDone,
                   issued>>

\* _ensure_token: `except Exception: pass`, then
\* token = await self._get_token_request() issues the authenticate call.
AsyncEnsureRefreshFail(c) ==
    /\ AsyncTurn(c)
    /\ pc[c] = "en_refresh_wait"
    /\ \E kind \in FailureKinds :
          swallowed' = Upd(swallowed, c, Failure("/v2/auth/refresh", kind))
    /\ req' = Upd(req, c, AuthRequest)
    /\ nAuth' = Upd(nAuth, c, nAuth[c] + 1)
    /\ before' = Upd(before, c, TokenState)
    /\ pc' = Upd(pc, c, "en_auth_wait")
    /\ UNCHANGED <<otherVars, now, lock, tokenVars, op, token, result, via,
                   nRefresh, nResource, writes, builtValid, opsDone, issued>>

\* `async with self._lock:` before self._store_token(token)
AsyncStoreAcquire(c) ==
    /\ AsyncTurn(c)
    /\ pc[c] = "st_acquire"
    /\ lock = Unlocked
    /\ lock' = c
    /\ pc' = Upd(pc, c, "st_access")
    /\ UNCHANGED <<otherVars, now, tokenVars, op, token, req, result, via,
                   swallowed, nAuth, nRefresh, nResource, writes, before,
                   builtValid, opsDone, issued>>

\* self._access_token = token.access_token
AsyncStoreAccess(c) ==
    /\ AsyncTurn(c)
    /\ pc[c] = "st_access"
    /\ access_token' = token[c].access_token
    /\ writes' = Upd(writes, c, writes[c] + 1)
    /\ pc' = Upd(pc, c, "st_refresh")
    /\ UNCHANGED <<otherVars, now, lock, refresh_token, expires_at,
                   refresh_expires_at, op, token, req, result, via, swallowed,
                   nAuth, nRefresh, nResource, before, builtValid, opsDone,
                   issued>>

\* self._refresh_token = token.refresh_token
AsyncStoreRefresh(c) ==
    /\ AsyncTurn(c)
    /\ pc[c] = "st_refresh"
    /\ refresh_token' = token[c].refresh_token
    /\ writes' = Upd(writes, c, writes[c] + 1)
    /\ pc' = Upd(pc, c, "st_expires")
    /\ UNCHANGED <<otherVars, now, lock, access_token, expires_at,
                   refresh_expires_at, op, token, req, result, via, swallowed,
                   nAuth, nRefresh, nResource, before, builtValid, opsDone,
                   issued>>

\* self._expires_at = token.expires_in
AsyncStoreExpires(c) ==
    /\ AsyncTurn(c)
    /\ pc[c] = "st_expires"
    /\ expires_at' = token[c].expires_in
    /\ writes' = Upd(writes, c, writes[c] + 1)
    /\ pc' = Upd(pc, c, "st_refresh_expires")
    /\ UNCHANGED <<otherVars, now, lock, access_token, refresh_token,
                   refresh_expires_at, op, token, req, result, via, swallowed,
                   nAuth, nRefresh, nResource, before, builtValid, opsDone,
                   issued>>

\* self._refresh_expires_at = token.refresh_expires_in; the with block ends
\* and the lock is released.  get_token and refresh_token return the token;
\* _ensure_token returns to _do_request.
AsyncStoreRefreshExpires(c) ==
    /\ AsyncTurn(c)
    /\ pc[c] = "st_refresh_expires"
    /\ refresh_expires_at' = token[c].refresh_expires_in
    /\ writes' = Upd(writes, c, writes[c] + 1)
    /\ lock' = Unlocked
    /\ before' = Upd(before, c, NoToken)
    /\ IF op[c] = "request"
          THEN /\ pc' = Upd(pc, c, "build")
               /\ token' = Upd(token, c, NoToken)
               /\ result' = result
          ELSE /\ pc' = Upd(pc, c, "idle")
               /\ token' = token
               /\ result' = Upd(result, c, Returned("token"))
    /\ UNCHANGED <<otherVars, now, access_token, refresh_token, expires_at,
                   op, req, via, swallowed, nAuth, nRefresh, nResource,
                   builtValid, opsDone, issued>>

\* ------------------------------------------------------------ _ensure_token
\* _do_request begins: await self._ensure_token() waits for the lock.
AsyncRequestBegin(c) ==
    /\ AsyncTurn(c)
    /\ Begin(c, "request")
    /\ pc' = Upd(pc, c, "en_acquire")
    /\ nAuth' = Upd(nAuth, c, 0)
    /\ UNCHANGED <<otherVars, now, lock, tokenVars, req, before, issued>>

\* _ensure_token: async with self._lock:
AsyncEnsureAcquire(c) ==
    /\ AsyncTurn(c)
    /\ pc[c] = "en_acquire"
    /\ lock = Unlocked
    /\ lock' = c
    /\ pc' = Upd(pc, c, "en_check")
    /\ UNCHANGED <<otherVars, now, tokenVars, op, token, req, result, via,
                   swallowed, nAuth, nRefresh, nResource, writes, before,
                   builtValid, opsDone, issued>>

\* AsyncEnsureCheck whose test of the access token leaves out the buffer.
AsyncEnsureCheckNoBuffer(c) ==
    /\ AsyncTurn(c)
    /\ pc[c] = "en_check"
    /\ lock' = Unlocked
    /\ IF access_token # "" /\ now < expires_at
          THEN /\ pc' = Upd(pc, c, "build")
               /\ via' = Upd(via, c, "cached")
               /\ UNCHANGED <<req, nAuth, nRefresh, before>>
          ELSE IF CanRefresh(refresh_token, refresh_expires_at, now)
          THEN /\ pc' = Upd(pc, c, "en_refresh_wait")
               /\ req' = Upd(req, c, RefreshRequest(refresh_token))
               /\ nRefresh' = Upd(nRefresh, c, nRefresh[c] + 1)
               /\ before' = Upd(before, c, TokenState)
               /\ UNCHANGED <<via, nAuth>>
          ELSE /\ pc' = Upd(pc, c, "en_auth_wait")
               /\ req' = Upd(req, c, AuthRequest)
               /\ nAuth' = Upd(nAuth, c, nAuth[c] + 1)
               /\ before' = Upd(before, c, TokenState)
               /\ UNCHANGED <<via, nRefresh>>
    /\ UNCHANGED <<otherVars, now, tokenVars, op, token, result, swallowed,
                   nResource, writes, builtValid, opsDone, issued>>

\* _ensure_token, the body of the first with block: now = int(time.time());
\* return when the access token is usable; else can_refresh and refresh_tok
\* are taken, the lock is released, and the refresh call (can_refresh) or
\* the authenticate call is issued.
AsyncEnsureCheck(c) ==
    /\ AsyncTurn(c)
    /\ pc[c] = "en_check"
    /\ lock' = Unlocked
    /\ IF TokenUsable(access_token, expires_at, now)
          THEN /\ pc' = Upd(pc, c, "build")
               /\ via' = Upd(via, c, "cached")
               /\ UNCHANGED <<req, nAuth, nRefresh, before>>
          ELSE IF CanRefresh(refresh_token, refresh_expires_at, now)
          THEN /\ pc' = Upd(pc, c, "en_refresh_wait")
               /\ req' = Upd(req, c, RefreshRequest(refresh_token))
               /\ nRefresh' = Upd(nRefresh, c, nRefresh[c] + 1)
               /\ before' = Upd(before, c, TokenState)
               /\ UNCHANGED <<via, nAuth>>
          ELSE /\ pc' = Upd(pc, c, "en_auth_wait")
               /\ req' = Upd(req, c, AuthRequest)
               /\ nAuth' = Upd(nAuth, c, nAuth[c] + 1)
               /\ before' = Upd(before, c, TokenState)
               /\ UNCHANGED <<via, nRefresh>>
    /\ UNCHANGED <<otherVars, now, tokenVars, op, token, result, swallowed,
                   nResource, writes, builtValid, opsDone, issued>>

\* -------------------------------------------------------------- _do_request
\* _do_request after _ensure_token returned: the headers are built from
\* self._access_token (read without the lock) and the request is sent.
AsyncBuildAndSend(c) ==
    /\ AsyncTurn(c)
    /\ pc[c] = "build"
    /\ req' = Upd(req, c, ResourceRequest(access_token))
    /\ nResource' = Upd(nResource, c, nResource[c] + 1)
    /\ builtValid' = Upd(builtValid, c,
                         access_token # "" /\ now < expires_at - 30)
    /\ pc' = Upd(pc, c, "rs_wait")
    /\ UNCHANGED <<otherVars, now, lock, tokenVars, op, token, result, via,
                   swallowed, nAuth, nRefresh, writes, before, opsDone,
                   issued>>

\* The resource endpoint answers 2xx: response.json() when the body is not
\* empty, {} when it is.
AsyncResourceOk(c) ==
    /\ AsyncTurn(c)
    /\ pc[c] = "rs_wait"
    /\ \E body \in {"json", ""} :
          result' = Upd(result, c, Returned(IF body # "" THEN body ELSE "{}"))
    /\ req' = Upd(req, c, NoRequest)
    /\ pc' = Upd(pc, c, "idle")
    /\ UNCHANGED <<otherVars, now, lock, tokenVars, op, token, via, swallowed,
                   nAuth, nRefresh, nResource, writes, before, builtValid,
                   opsDone, issued>>

\* The resource endpoint answers outside [200, 300), or the transport
\* raises: the exception leaves _do_request.
AsyncResourceFail(c) ==
    /\ AsyncTurn(c)
    /\ pc[c] = "rs_wait"
    /\ \E kind \in FailureKinds : Raise(c, Failure("resource", kind))
    /\ UNCHANGED <<otherVars, now, lock, tokenVars, op, token, via, swallowed,
                   nAuth, nRefresh, nResource, writes, builtValid, opsDone,
                   issued>>

\* The statements a task executes, and the answers it receives.
AsyncStep(c) ==
    \/ AsyncRefreshTokenAcquire(c)
    \/ AsyncRefreshTokenRead(c)
    \/ AsyncEnsureAcquire(c)
    \/ AsyncEnsureCheck(c)
    \/ AsyncAuthOk(c)
    \/ AsyncAuthFail(c)
    \/ AsyncRefreshOk(c)
    \/ AsyncRefreshTokenFail(c)
    \/ AsyncEnsureRefreshFail(c)
    \/ AsyncStoreAcquire(c)
    \/ AsyncStoreAccess(c)
    \/ AsyncStoreRefresh(c)
    \/ AsyncStoreExpires(c)
    \/ AsyncStoreRefreshExpires(c)
    \/ AsyncBuildAndSend(c)
    \/ AsyncResourceOk(c)
    \/ AsyncResourceFail(c)

AsyncNext ==
    \/ Tick
    \/ \E c \in Callers :
          \/ AsyncGetTokenCall(c)
          \/ AsyncRefreshTokenBegin(c)
          \/ AsyncRequestBegin(c)
          \/ AsyncStep(c)

AsyncSpec == Init /\ [][AsyncNext]_vars

\* ------------------------------------------------- one response, one handler
\* The empty dict `{}`.
EmptyDict == << >>

\* response.json(): the decoded body, or the ValueError of the decoder.
response_json(body) ==
    IF json_loads(body).kind = "ValueError"
       THEN Raised(OtherError("ValueError"))
       ELSE Returned(json_loads(body).data)

\* do_request_response without the test of response.content: the body is
\* always decoded.
do_request_response_always_decodes(status, body) ==
    IF status < 200 \/ status >= 300
       THEN Raised(from_response(status, body))
       ELSE response_json(body)

\* _do_request, from the response on: raise for a status outside [200, 300),
\* else response.json() when response.content is not empty, else {}.
do_request_response(status, body) ==
    IF status < 200 \/ status >= 300
       THEN Raised(from_response(status, body))
    ELSE IF body # ""
       THEN response_json(body)
    ELSE Returned(EmptyDict)

\* _do_basic_auth_request and _do_refresh_token_http, from the response on:
\* raise for a status outside [200, 300), else
\* TokenResponse.from_dict(response.json()), whose data.get raises for a
\* decoded value that is not an object.
token_response(status, body) ==
    IF status < 200 \/ status >= 300
       THEN Raised(from_response(status, body))
    ELSE IF response_json(body).state = "raised"
       THEN response_json(body)
    ELSE IF json_loads(body).kind = "value"
       THEN Raised(OtherError("AttributeError"))
    ELSE Returned(from_dict(json_loads(body).data))

\* The handler named `handler` has dealt with the response in hand.
Handle(handler, res) ==
    /\ status_code \in Statuses
    /\ outcome = NoOutcome
    /\ outcome' = [ handler |-> handler, result |-> res ]
    /\ UNCHANGED <<now, lock, tokenVars, callerVars, localVars, issued,
                   httpVars, envVars, status_code, content>>

\* _do_request receives the response of a resource endpoint.
DoRequestResponse ==
    Handle("_do_request", do_request_response(status_code, content))

\* _do_basic_auth_request receives the response of /v2/auth/token.
BasicAuthResponse ==
    Handle("_do_basic_auth_request", token_response(status_code, content))

\* _do_refresh_token_http receives the response of /v2/auth/refresh.
RefreshResponse ==
    Handle("_do_refresh_token_http", token_response(status_code, content))

\* QPayError.from_response is applied to the response: it returns the
\* error, or raises.
FromResponse ==
    Handle("from_response",
           IF from_response(status_code, content).kind = "QPayError"
              THEN Returned(from_response(status_code, content))
              ELSE Raised(from_response(status_code, content)))

\* Any response of the server is in hand.
WireInit ==
    /\ ClientInit
    /\ HttpInit(None)
    /\ EnvIdle
    /\ status_code \in Statuses
    /\ content \in Contents
    /\ outcome = NoOutcome

WireNext ==
    \/ DoRequestResponse
    \/ BasicAuthResponse
    \/ RefreshResponse
    \/ FromResponse

WireSpec == WireInit /\ [][WireNext]_vars

\* ------------------------------------------------- close and the with block
\* DoClose that also forgets the stored token pair.
DoCloseClearsToken ==
    /\ nClose < MaxClose
    /\ nClose' = nClose + 1
    /\ IF owns_http
          THEN http_closed' = TRUE /\ httpCloses' = httpCloses + 1
          ELSE UNCHANGED <<http_closed, httpCloses>>
    /\ access_token' = ""
    /\ refresh_token' = ""
    /\ expires_at' = 0
    /\ refresh_expires_at' = 0
    /\ UNCHANGED <<now, lock, callerVars, localVars, issued, http, owns_http,
                   wireVars, envVars>>

\* close(): if self._owns_http: self._http.close().  The transport the
\* client created is an httpx.Client, whose close() leaves it closed.
DoClose ==
    /\ nClose < MaxClose
    /\ nClose' = nClose + 1
    /\ IF owns_http
          THEN http_closed' = TRUE /\ httpCloses' = httpCloses + 1
          ELSE UNCHANGED <<http_closed, httpCloses>>
    /\ UNCHANGED <<now, lock, tokenVars, callerVars, localVars, issued, http,
                   owns_http, wireVars, envVars>>

\* client.close()
Close == DoClose /\ UNCHANGED entered

\* __enter__: `with client:` begins.
Enter ==
    /\ ~ entered
    /\ nClose < MaxClose
    /\ entered' = TRUE
    /\ UNCHANGED <<now, lock, tokenVars, callerVars, localVars, issued, http,
                   owns_http, http_closed, nClose, httpCloses, wireVars,
                   envVars>>

\* __exit__: self.close()
Exit ==
    /\ entered
    /\ entered' = FALSE
    /\ DoClose

\* The owner of a supplied transport closes it.
OwnerCloses ==
    /\ http # "created"
    /\ ~ http_closed
    /\ http_closed' = TRUE
    /\ UNCHANGED <<now, lock, tokenVars, callerVars, localVars, issued, http,
                   owns_http, nClose, httpCloses, entered, wireVars, envVars>>

\* A client constructed with or without http_client.
LifeInit ==
    /\ ClientInit
    /\ \E http_client \in {None, "external"} : HttpInit(http_client)
    /\ WireIdle
    /\ EnvIdle

\* One thread uses the client, closes it, enters and leaves its with block,
\* in any order.
LifeNext ==
    \/ Close
    \/ Enter
    \/ Exit
    \/ OwnerCloses
    \/ SingleNext

LifeSpec == LifeInit /\ [][LifeNext]_vars

\* ------------------------------------------------------ QPayConfig.from_env
\* QPayConfig.from_env() is called.
FromEnv ==
    /\ config = NoResult
    /\ config' = from_env(environ)
    /\ UNCHANGED <<now, lock, tokenVars, callerVars, localVars, issued,
                   httpVars, wireVars, environ>>

\* Any environment, from_env not yet called.
EnvInit ==
    /\ ClientInit
    /\ HttpInit(None)
    /\ WireIdle
    /\ environ \in Environs
    /\ config = NoResult

EnvNext == FromEnv

EnvSpec == EnvInit /\ [][EnvNext]_vars

\* ------------------------------------------------------------------ claims
\* The lock-held snapshot of _ensure_token by caller c happens in this step.
Snapshot(c) == pc[c] = "en_check" /\ pc'[c] # "en_check"

\* C1: whenever the stored access token is non-empty and now < expiry - 30
\* at the snapshot of _ensure_token, that _ensure_token call is over with the
\* snapshot: it has issued no refresh call and no authenticate call, it has
\* no call in flight, and the four token fields are as they were.
C1_UsableTokenNoNetworkCall ==
    [][ \A c \in Callers :
          (Snapshot(c) /\ access_token # "" /\ now < expires_at - 30)
             => /\ pc'[c] = "build"
                /\ via'[c] = "cached"
                /\ req'[c] = NoRequest
                /\ nAuth'[c] = 0
                /\ nRefresh'[c] = 0
                /\ TokenState' = TokenState ]_vars

\* A caller's _ensure_token has returned on a usable stored token.
C1_Witness ==
    \E c \in Callers :
       /\ pc[c] = "build"
       /\ via[c] = "cached"
       /\ access_token # ""
       /\ now < expires_at - 30

\* C2 (single caller): when the snapshot of _ensure_token finds the access
\* token unusable and a refresh token with now < refresh expiry - 30, one
\* refresh call is issued; when that call succeeds, _ensure_token has issued
\* exactly one refresh call and no authenticate call, and the resource
\* request of the operation is then sent.
C2_RefreshedOnceNoAuth ==
    /\ [][ \A c \in Callers :
             (/\ Snapshot(c)
              /\ ~ (access_token # "" /\ now < expires_at - 30)
              /\ refresh_token # ""
              /\ now < refresh_expires_at - 30)
                => /\ pc'[c] = "en_refresh_wait"
                   /\ req'[c] = RefreshRequest(refresh_token)
                   /\ nRefresh'[c] = 1
                   /\ nAuth'[c] = 0 ]_vars
    /\ [](\A c \in Callers :
             via[c] = "refresh" => (nRefresh[c] = 1 /\ nAuth[c] = 0))
    /\ \A c \in Callers :
          (op[c] = "request" /\ via[c] = "refresh") ~> (nResource[c] = 1)

\* A resource request is in flight after a successful refresh in
\* _ensure_token.
C2_Witness ==
    \E c \in Callers :
       /\ pc[c] = "rs_wait"
       /\ via[c] = "refresh"
       /\ nRefresh[c] = 1

\* C3: the failure of the refresh call of _ensure_token never reaches the
\* caller; exactly one authenticate call follows it; _ensure_token returns
\* (and the operation goes on to its resource request) when that call
\* succeeds, and the operation ends with the authenticate call's error, no
\* resource request sent, when it fails.
C3_RefreshFailureSuperseded ==
    \A c \in Callers :
       /\ op[c] = "request" => result[c].error.endpoint # "/v2/auth/refresh"
       /\ swallowed[c] # NoError =>
             /\ nRefresh[c] = 1
             /\ nAuth[c] = 1
             /\ via[c] \in {"none", "auth", "failed"}
             /\ via[c] = "none" <=> pc[c] = "en_auth_wait"
             /\ pc[c] = "en_auth_wait" => req[c] = AuthRequest
             /\ via[c] = "auth" =>
                   /\ pc[c] \in {"st_acquire", "st_access", "st_refresh",
                                 "st_expires", "st_refresh_expires", "build",
                                 "rs_wait", "idle"}
                   /\ pc[c] = "idle" => nResource[c] = 1
                   /\ result[c].state = "raised" =>
                         result[c].error.endpoint = "resource"
             /\ via[c] = "failed" =>
                   /\ pc[c] = "idle"
                   /\ nResource[c] = 0
                   /\ result[c].state = "raised"
                   /\ result[c].error.endpoint = "/v2/auth/token"
                   /\ result[c].error # swallowed[c]

\* An operation has ended with the error of the authenticate call that
\* followed a failed refresh call.
C3_Witness ==
    \E c \in Callers :
       /\ swallowed[c] # NoError
       /\ via[c] = "failed"
       /\ result[c].state = "raised"

\* C4: when the first operation on a new client is an authenticated one,
\* it issues exactly one authenticate call and no refresh call, and its
\* resource request is sent only after that call has returned and its
\* token pair has been stored.
C4_FirstOperationAuthenticatesOnce ==
    \A c \in Callers :
       (opsDone = 1 /\ op[c] = "request") =>
          /\ nRefresh[c] = 0
          /\ pc[c] \in {"en_acquire", "en_check"} =>
                (nAuth[c] = 0 /\ nResource[c] = 0)
          /\ pc[c] \notin {"en_acquire", "en_check"} => nAuth[c] = 1
          /\ pc[c] = "en_auth_wait" =>
                (nResource[c] = 0 /\ req[c] = AuthRequest)
          /\ nResource[c] = 1 =>
                /\ via[c] = "auth"
                /\ Len(issued) = 1
                /\ TokenState = issued[1]
          /\ nResource[c] <= 1

\* The resource request of the first operation is in flight.
C4_Witness ==
    \E c \in Callers :
       /\ opsDone = 1
       /\ op[c] = "request"
       /\ pc[c] = "rs_wait"
       /\ nAuth[c] = 1

\* C5, as claimed: operations invoked concurrently on a new client, the
\* authenticate endpoint always succeeding with a non-empty token: some
\* authenticate call succeeds, every operation sends its resource request,
\* and no resource request carries an empty access token.
C5_NoEmptyBearerOnFreshClient ==
    /\ [](\A c \in Callers : pc[c] = "rs_wait" => req[c].auth # "")
    /\ [](opsDone > 0 => <>(Len(issued) > 0))
    /\ \A c \in Callers :
          (op[c] = "request" /\ pc[c] # "idle") ~> (nResource[c] = 1)

\* C6, as claimed: every resource request that is sent was built with a
\* non-empty access token for which now < expiry - 30 held when it was
\* built.
C6_EveryRequestCarriesUsableToken ==
    \A c \in Callers : pc[c] = "rs_wait" => builtValid[c]

\* The four fields are those of __init__, or those of one response.
FromOneResponse ==
    \/ TokenState = NoToken
    \/ \E i \in 1..Len(issued) : TokenState = issued[i]

ExchangeFails(c) ==
    /\ pc[c] \in TokenWaitPcs
    /\ \/ pc'[c] = "idle"
       \/ pc[c] = "en_refresh_wait" /\ pc'[c] = "en_auth_wait"

\* C8, as claimed: when a call to a token endpoint fails, the four fields
\* have the values they had when the caller issued that call.
C8_FailureRestoresStateAtIssue ==
    [][ \A c \in Callers : ExchangeFails(c) => TokenState' = before[c] ]_vars

\* C8, amended: the failed exchange itself writes nothing: the four fields
\* after the failure are those just before the failure was received, and
\* the caller has written no field in this operation.
C8_FailedExchangeWritesNothing ==
    [][ \A c \in Callers :
          ExchangeFails(c) =>
             /\ TokenState' = TokenState
             /\ writes[c] = 0
             /\ writes'[c] = 0
             /\ pc'[c] \notin LockedPcs \cup {"st_acquire"} ]_vars

\* A call to a token endpoint has failed while a pair was stored.
C8_Witness ==
    \E c \in Callers :
       /\ result[c].state = "raised"
       /\ result[c].error.endpoint \in {"/v2/auth/token", "/v2/auth/refresh"}
       /\ access_token # ""
       /\ TokenState = issued[1]

\* Caller c is between the snapshot of _ensure_token and the end of the
\* store of the exchange the snapshot led to.
InEnsureSequence(c) ==
    /\ op[c] = "request"
    /\ pc[c] \in {"en_check", "en_refresh_wait", "en_auth_wait", "st_acquire",
                  "st_access", "st_refresh", "st_expires",
                  "st_refresh_expires"}

\* C9, as claimed: no two callers are at the same time between the snapshot
\* of _ensure_token and the store of the exchange it led to.
C9_EnsureSequencesExclusive ==
    \A c, d \in Callers :
       (InEnsureSequence(c) /\ InEnsureSequence(d)) => c = d

\* C9, amended: only the lock-held sections exclude one another: no two
\* callers are at the same time inside a snapshot or a store, and whoever is
\* inside one holds the lock.
C9_LockedSectionsExclusive ==
    \A c, d \in Callers :
       /\ (pc[c] \in LockedPcs /\ pc[d] \in LockedPcs) => c = d
       /\ pc[c] \in LockedPcs => lock = c

\* One caller stores its pair while another one's _ensure_token has its own
\* exchange in flight.
C9_Witness ==
    \E c, d \in Callers :
       /\ c # d
       /\ InEnsureSequence(c) /\ pc[c] \in LockedPcs
       /\ InEnsureSequence(d) /\ pc[d] \in TokenWaitPcs

\* C10: no caller holds the lock while its call to a token endpoint is in
\* flight: the holder of the lock is always inside a snapshot or a store,
\* so a pending exchange never keeps another caller from its snapshot.
C10_NoLockAcrossTokenCall ==
    \A c \in Callers :
       /\ pc[c] \in TokenWaitPcs => lock # c
       /\ lock = c => pc[c] \in LockedPcs

\* A caller takes its snapshot while another caller's exchange is in flight.
C10_Witness ==
    \E c, d \in Callers :
       /\ c # d
       /\ pc[c] \in TokenWaitPcs
       /\ pc[d] = "en_check"
       /\ lock = d

\* C11, as claimed: every statement that reads or writes one of the four
\* token fields, the read of the access token for the Authorization header
\* of a resource request included, is executed by the holder of the lock.
C11_AllAccessUnderLock ==
    [][ \A c \in Callers :
          (pc[c] \in AccessPcs /\ pc'[c] # pc[c]) => lock = c ]_vars

\* C12: when the last authenticate call of _ensure_token fails inside an
\* authenticated operation, the operation is over, it has raised the error
\* of that authenticate call, and it has sent no resource request; an
\* operation that raised the error of a token endpoint has sent none.
C12_EnsureFailureFailsOperation ==
    \A c \in Callers :
       /\ via[c] = "failed" =>
             /\ op[c] = "request"
             /\ pc[c] = "idle"
             /\ req[c] = NoRequest
             /\ result[c].state = "raised"
             /\ result[c].error \in
                   { Failure("/v2/auth/token", kind) : kind \in FailureKinds }
             /\ nResource[c] = 0
       /\ (op[c] = "request" /\ result[c].state = "raised"
             /\ result[c].error.endpoint # "resource") => nResource[c] = 0

\* The first exchange of an operation's _ensure_token, an authenticate
\* call, has failed and the operation has raised its error.
C12_Witness ==
    \E c \in Callers :
       /\ op[c] = "request"
       /\ via[c] = "failed"
       /\ swallowed[c] = NoError
       /\ nRefresh[c] = 0
       /\ result[c].state = "raised"
       /\ nResource[c] = 0

\* The `error` and `message` fields of a response body: the field of the
\* decoded JSON object, "" when the body has no such field.
BodyField(body, key) ==
    IF body \in DOMAIN JsonObjects THEN Get(JsonObjects[body], key, "") ELSE ""

\* The code and the message the error of a response is claimed to carry.
ClaimedCode(status, body) ==
    IF BodyField(body, "error") # "" THEN BodyField(body, "error")
    ELSE IF status \in DOMAIN Phrases THEN Phrases[status]
    ELSE ToString(status)

ClaimedMessage(body) ==
    IF BodyField(body, "message") # "" THEN BodyField(body, "message")
    ELSE decode(body)

\* C13, as claimed: for every response of a resource endpoint whose status
\* is outside [200, 300), _do_request raises a QPayError that carries that
\* status and the code and message of the body, and returns no result; for
\* every status in [200, 300) it raises no QPayError.
C13_NonSuccessRaisesStructuredError ==
    outcome.handler = "_do_request" =>
       IF status_code < 200 \/ status_code >= 300
          THEN /\ outcome.result.state = "raised"
               /\ outcome.result.error.kind = "QPayError"
               /\ outcome.result.error.status_code = status_code
               /\ outcome.result.error.code = ClaimedCode(status_code, content)
               /\ outcome.result.error.message = ClaimedMessage(content)
          ELSE ~ (/\ outcome.result.state = "raised"
                  /\ outcome.result.error.kind = "QPayError")

\* C14: for every response of a resource endpoint with a status in
\* [200, 300), _do_request returns the empty dict when the body is empty and
\* the decoded body when the body is not empty and is JSON; it raises
\* nothing in either case.
C14_SuccessYieldsBodyOrEmpty ==
    (/\ outcome.handler = "_do_request"
     /\ status_code >= 200
     /\ status_code < 300) =>
       /\ content = "" => outcome.result = Returned(EmptyDict)
       /\ content \in DOMAIN JsonObjects =>
             outcome.result = Returned(JsonObjects[content])
       /\ content \in {NullBody, ArrayBody} =>
             outcome.result = Returned(content)

\* A delete-style call has been answered 204 with an empty body and has
\* returned the empty result.
C14_Witness ==
    /\ outcome.handler = "_do_request"
    /\ status_code = 204
    /\ content = ""
    /\ outcome.result.state = "returned"
    /\ outcome.result.value = EmptyDict

\* C15, as claimed: when /v2/auth/token answers with a status outside
\* [200, 300) and a body that has a code and a message, the error raised
\* carries that status, that code and that message, and it is of a kind of
\* its own, AuthError, which is not the kind _do_request raises for the same
\* answer of a resource endpoint.
C15_AuthErrorKind ==
    (/\ outcome.handler = "_do_basic_auth_request"
     /\ (status_code < 200 \/ status_code >= 300)
     /\ BodyField(content, "error") # ""
     /\ BodyField(content, "message") # "") =>
       /\ outcome.result.state = "raised"
       /\ outcome.result.error.status_code = status_code
       /\ outcome.result.error.code = BodyField(content, "error")
       /\ outcome.result.error.message = BodyField(content, "message")
       /\ outcome.result.error.kind = "AuthError"
       /\ outcome.result.error.kind #
             do_request_response(status_code, content).error.kind

\* C16, as claimed: for every status and every body, from_response returns
\* an error whose status_code is the status, whose code is the body's
\* `error` field when present and non-empty and else the status phrase (the
\* decimal status when there is none), and whose message is the body's
\* `message` field when present and non-empty and else the body text.
C16_ErrorTranslationFallbacks ==
    outcome.handler = "from_response" =>
       /\ outcome.result.state = "returned"
       /\ outcome.result.value.status_code = status_code
       /\ outcome.result.value.code = ClaimedCode(status_code, content)
       /\ outcome.result.value.message = ClaimedMessage(content)

\* The required variables that are unset or empty in os.environ.
Missing ==
    { n \in DOMAIN env_map : n \notin DOMAIN environ \/ environ[n] = "" }

\* C17: from_env returns iff each of the five variables is set to a
\* non-empty value, and then every field has the value of its variable;
\* otherwise it raises one ValueError, and the names of the required
\* variables that appear in its message are exactly those that are unset or
\* empty.
C17_FromEnvReportsEveryMissing ==
    config # NoResult =>
       /\ config.state = "returned" <=> Missing = {}
       /\ config.state = "returned" =>
             \A n \in DOMAIN env_map : config.value[env_map[n]] = environ[n]
       /\ config.state # "returned" =>
             /\ config.state = "raised"
             /\ config.error.kind = "ValueError"
             /\ { config.error.message[i] :
                    i \in DOMAIN config.error.message } \cap DOMAIN env_map
                   = Missing

\* from_env has raised for an environment in which one variable is unset,
\* one is empty and the others are set.
C17_Witness ==
    /\ config.state = "raised"
    /\ "QPAY_USERNAME" \notin DOMAIN environ
    /\ "QPAY_CALLBACK_URL" \in DOMAIN environ
    /\ environ["QPAY_CALLBACK_URL"] = ""
    /\ Cardinality(Missing) = 2
    /\ config.error.message =
          << "Required environment variable(s) not set: ", "QPAY_USERNAME",
             ", ", "QPAY_CALLBACK_URL" >>

\* C18: the client never calls close() on a transport that was supplied to
\* it, however often close() and __exit__ run; on the transport it created
\* itself, every close() and every __exit__ calls close(), and that
\* transport is closed from the first such call on.
C18_NeverClosesSuppliedTransport ==
    /\ http # "created" => httpCloses = 0
    /\ http = "created" =>
          /\ httpCloses = nClose
          /\ nClose > 0 => http_closed
          /\ nClose = 0 => ~ http_closed

\* close() and __exit__ have run on a client with a supplied transport,
\* which is still open.
C18_Witness ==
    /\ http = "external"
    /\ nClose = 2
    /\ ~ entered
    /\ ~ http_closed
    /\ httpCloses = 0

\* C19: every close() after the first (by close() or by __exit__) leaves
\* the transport, the ownership flag, the token fields, the lock and every
\* caller's operation as they were; the transport the client owns stays
\* closed.
C19_CloseIdempotent ==
    /\ [][ (nClose' = nClose + 1 /\ nClose >= 1) =>
               /\ http' = http
               /\ owns_http' = owns_http
               /\ http_closed' = http_closed
               /\ TokenState' = TokenState
               /\ lock' = lock
               /\ pc' = pc
               /\ result' = result ]_vars
    /\ [][ http_closed => http_closed' ]_vars

\* The client has been used, then closed twice; its own transport is
\* closed and the stored pair is still there.
C19_Witness ==
    /\ http = "created"
    /\ nClose = 2
    /\ http_closed
    /\ access_token # ""
    /\ TokenState = issued[1]

\* C20: every step of the AsyncQPayClient, whose tasks run one at a time
\* between their await points, is a step of the QPayClient used by threads:
\* the same call issued with the same credential, the same token fields
\* written, the same result or error for the operation.
C20_AsyncBehavesAsThreaded == [][Next]_vars

\* Two tasks are inside operations at once: one has its resource request in
\* flight, sent with the pair it stored, while the other stores its own.
C20_Witness ==
    \E c, d \in Callers :
       /\ c # d
       /\ pc[c] = "rs_wait"
       /\ req[c].auth # ""
       /\ pc[d] = "st_refresh"
       /\ lock = d

\* The store of caller c ends in this step: the lock is released.
StoreEnds(c) == pc[c] = "st_refresh_expires" /\ pc'[c] # "st_refresh_expires"

\* C21: get_token issues one authenticate call whatever is stored; when
\* the call succeeds, the four fields are those of the returned response
\* at the moment the store ends and get_token returns that response.
C21_GetTokenStoresWhatItReturns ==
    /\ [][ \A c \in Callers :
             /\ (pc[c] = "idle" /\ op'[c] = "get_token" /\ pc'[c] # "idle")
                   => /\ req'[c] = AuthRequest
                      /\ nAuth'[c] = 1
                      /\ nRefresh'[c] = 0
             /\ (StoreEnds(c) /\ op[c] = "get_token")
                   => /\ TokenState' = token'[c]
                      /\ \E i \in 1..Len(issued) : token'[c] = issued[i]
                      /\ result'[c].state = "returned"
                      /\ pc'[c] = "idle"
                      /\ nAuth'[c] = 1
                      /\ nRefresh'[c] = 0
                      /\ writes'[c] = 4 ]_vars

\* get_token has returned the pair of a second response while the pair of
\* the first, stored before, would still be usable.
C21_Witness ==
    \E c \in Callers :
       /\ op[c] = "get_token"
       /\ result[c].state = "returned"
       /\ Len(issued) = 2
       /\ token[c] = issued[2]
       /\ TokenState = issued[2]
       /\ issued[1].access_token # ""
       /\ now < issued[1].expires_in - 30
       /\ issued[2] # issued[1]

\* C22: refresh_token issues one refresh call that carries the refresh
\* token stored when it is read under the lock, never the username and
\* password, and no authenticate call; on success the four fields are those
\* of the returned response when the store ends; on failure the error of
\* the refresh call reaches the caller and this caller has written nothing.
C22_RefreshTokenContract ==
    /\ [][ \A c \in Callers :
             /\ (pc[c] = "rt_read" /\ pc'[c] # "rt_read")
                   => /\ lock = c
                      /\ req'[c].endpoint = "/v2/auth/refresh"
                      /\ req'[c].auth = refresh_token
                      /\ req'[c].auth # BasicAuth
                      /\ nRefresh'[c] = 1
             /\ (StoreEnds(c) /\ op[c] = "refresh_token")
                   => /\ TokenState' = token'[c]
                      /\ result'[c].state = "returned"
                      /\ writes'[c] = 4
             /\ (pc[c] = "rt_wait" /\ pc'[c] \notin {"rt_wait", "st_acquire"})
                   => /\ pc'[c] = "idle"
                      /\ result'[c].state = "raised"
                      /\ result'[c].error.endpoint = "/v2/auth/refresh"
                      /\ TokenState' = TokenState
                      /\ writes'[c] = 0 ]_vars
    /\ [](\A c \in Callers :
             op[c] = "refresh_token" =>
                /\ nAuth[c] = 0
                /\ nRefresh[c] <= 1
                /\ swallowed[c] = NoError)

\* refresh_token has failed on a client that holds a pair: the error is
\* with the caller and the pair is still stored.
C22_Witness ==
    \E c \in Callers :
       /\ op[c] = "refresh_token"
       /\ result[c].state = "raised"
       /\ result[c].error.endpoint = "/v2/auth/refresh"
       /\ nRefresh[c] = 1
       /\ refresh_token # ""
       /\ Len(issued) >= 1
       /\ TokenState = issued[1]

\* C23: an authenticated operation issues at most one refresh call, at
\* most one authenticate call and at most one resource request; once its
\* resource request or its authenticate call has failed it issues nothing
\* more.
C23_NoRetries ==
    \A c \in Callers :
       op[c] = "request" =>
          /\ nRefresh[c] <= 1
          /\ nAuth[c] <= 1
          /\ nResource[c] <= 1
          /\ result[c].state = "raised" =>
                /\ pc[c] = "idle"
                /\ req[c] = NoRequest
                /\ result[c].error.endpoint = "resource" => nResource[c] = 1
                /\ result[c].error.endpoint = "/v2/auth/token" =>
                      (nAuth[c] = 1 /\ nResource[c] = 0)

\* An operation has made a refresh call that failed, an authenticate call
\* that succeeded and a resource request that failed, one of each.
C23_Witness ==
    \E c \in Callers :
       /\ op[c] = "request"
       /\ nRefresh[c] = 1
       /\ nAuth[c] = 1
       /\ nResource[c] = 1
       /\ result[c].state = "raised"
       /\ result[c].error.endpoint = "resource"

\* What a caller receives when the transport raises during a call.
TransportFailure(endpoint) == Raised(Failure(endpoint, "TransportError"))

\* C24: when the transport raises during a resource request, during the
\* call of get_token or refresh_token, or during the authenticate call that
\* ends _ensure_token, the caller receives that transport error of that
\* call; the operation is over, nothing is sent again and no field of
\* TokenState changes.
C24_TransportErrorSurfaces ==
    /\ [](\A c \in Callers :
             /\ pc[c] = "rs_wait" =>
                   ENABLED (/\ ResourceFail(c)
                            /\ result'[c] = TransportFailure("resource"))
             /\ pc[c] \in {"gt_wait", "en_auth_wait"} =>
                   ENABLED (/\ AuthFail(c)
                            /\ result'[c] = TransportFailure("/v2/auth/token"))
             /\ pc[c] = "rt_wait" =>
                   ENABLED (/\ RefreshTokenFail(c)
                            /\ result'[c] =
                                  TransportFailure("/v2/auth/refresh")))
    /\ [][ \A c \in Callers :
             (/\ result'[c] # result[c]
              /\ result'[c].error.kind = "TransportError")
                => /\ result'[c] = TransportFailure(req[c].endpoint)
                   /\ pc'[c] = "idle"
                   /\ req'[c] = NoRequest
                   /\ TokenState' = TokenState
                   /\ writes'[c] = writes[c]
                   /\ nAuth'[c] = nAuth[c]
                   /\ nRefresh'[c] = nRefresh[c]
                   /\ nResource'[c] = nResource[c] ]_vars

\* The authenticate call that ends _ensure_token has failed in the
\* transport while a pair is stored: the operation has that error and the
\* pair is still stored.
C24_Witness ==
    \E c \in Callers :
       /\ op[c] = "request"
       /\ result[c] = TransportFailure("/v2/auth/token")
       /\ Len(issued) >= 1
       /\ TokenState = issued[1]
       /\ access_token # ""

\* C25: when at the snapshot of _ensure_token the access token is not
\* usable and the refresh token is empty or now >= its expiry - 30, no
\* refresh call is issued: the operation goes straight to one authenticate
\* call.
C25_NoRefreshWhenCannotRefresh ==
    [][ \A c \in Callers :
          (/\ Snapshot(c)
           /\ access_token = "" \/ now >= expires_at - 30
           /\ refresh_token = "" \/ now >= refresh_expires_at - 30)
             => /\ pc'[c] = "en_auth_wait"
                /\ req'[c] = AuthRequest
                /\ nRefresh'[c] = 0
                /\ nAuth'[c] = 1
                /\ swallowed'[c] = NoError ]_vars

\* An operation that found a stored refresh token past its margin waits
\* for its authenticate call, having issued no refresh call.
C25_Witness ==
    \E c \in Callers :
       /\ pc[c] = "en_auth_wait"
       /\ nRefresh[c] = 0
       /\ nAuth[c] = 1
       /\ before[c].refresh_token # ""
       /\ before[c].refresh_expires_in - 30 <= now

\* C26: both comparisons of _ensure_token are strict with a margin of 30
\* seconds: the access token is used iff it is non-empty and
\* now < expiry - 30, so at now = expiry - 30 it is taken for expired; a
\* refresh call is issued iff the access token is not usable and the
\* refresh token is non-empty and now < refresh expiry - 30.
C26_StrictBufferComparison ==
    [][ \A c \in Callers :
          Snapshot(c) =>
             /\ pc'[c] = "build"
                   <=> (access_token # "" /\ now < expires_at - 30)
             /\ pc'[c] = "en_refresh_wait"
                   <=> /\ ~ (access_token # "" /\ now < expires_at - 30)
                       /\ refresh_token # ""
                       /\ now < refresh_expires_at - 30
             /\ now = expires_at - 30 => pc'[c] # "build"
             /\ now = refresh_expires_at - 30 => pc'[c] # "en_refresh_wait"
             /\ (now = expires_at - 31 /\ access_token # "")
                   => pc'[c] = "build" ]_vars

\* An operation found a non-empty access token at exactly now = expiry - 30
\* and has gone to a token endpoint.
C26_Witness ==
    \E c \in Callers :
       /\ pc[c] \in {"en_refresh_wait", "en_auth_wait"}
       /\ swallowed[c] = NoError
       /\ before[c].access_token # ""
       /\ now = before[c].expires_in - 30

\* The values of a tuple.
Range(seq) == { seq[i] : i \in DOMAIN seq }

\* C27: an authenticate call carries the username and password and no
\* token; a refresh call carries a refresh token (or the empty string of
\* a client that holds none), never an access token or the username and
\* password; a resource request carries an access token (or the empty
\* string), never a refresh token or the username and password.
C27_CredentialsNotMixed ==
    \A c \in Callers :
       /\ req[c].endpoint = "/v2/auth/token" => req[c].auth = BasicAuth
       /\ req[c].endpoint = "/v2/auth/refresh" =>
             /\ req[c].auth \in Range(RefreshTokens) \cup {""}
             /\ req[c].auth \notin Range(AccessTokens) \cup {BasicAuth}
       /\ req[c].endpoint = "resource" =>
             /\ req[c].auth \in Range(AccessTokens) \cup {""}
             /\ req[c].auth \notin Range(RefreshTokens) \cup {BasicAuth}

\* A refresh call carrying a stored refresh token and a resource request
\* carrying a stored access token are in flight together.
C27_Witness ==
    \E c, d \in Callers :
       /\ req[c] = RefreshRequest(RefreshTokens[1])
       /\ req[d] = ResourceRequest(AccessTokens[1])

\* Caller c is in _do_request after _ensure_token returned.
AfterEnsure(c) == op[c] = "request" /\ pc[c] \in {"build", "rs_wait"}

\* C28: from the return of _ensure_token to the end of the operation the
\* caller writes none of the four fields, whatever the answer to its
\* resource request: building the headers, sending, a 2xx answer and a
\* failure (a 401 included) all leave TokenState as it is.
C28_ResourceRoundTripKeepsTokens ==
    [][ \A c \in Callers :
          (AfterEnsure(c) /\ (pc'[c] # pc[c] \/ result'[c] # result[c]))
             => /\ TokenState' = TokenState
                /\ writes'[c] = writes[c]
                /\ lock' = lock
                /\ pc'[c] \in {"rs_wait", "idle"} ]_vars

\* A resource request has failed with an API error while a pair is stored;
\* the pair is still stored.
C28_Witness ==
    \E c \in Callers :
       /\ op[c] = "request"
       /\ result[c] = Raised(Failure("resource", "QPayError"))
       /\ access_token # ""
       /\ refresh_token # ""
       /\ expires_at > 0
       /\ writes[c] = 4

\* C29: the steps of an authenticated operation are ordered: nothing is
\* sent before the validity check; an authenticate call follows the
\* refresh call, if there was one, and only after it failed; the store of
\* a pair obtained from a token endpoint is complete before the resource
\* request is sent; and the resource request is sent only after
\* _ensure_token returned without raising.
C29_StepsOrdered ==
    \A c \in Callers :
       op[c] = "request" =>
          /\ pc[c] \in {"en_acquire", "en_check"} =>
                /\ nRefresh[c] = 0
                /\ nAuth[c] = 0
                /\ nResource[c] = 0
                /\ writes[c] = 0
                /\ via[c] = "none"
          /\ pc[c] = "en_refresh_wait" => (nAuth[c] = 0 /\ writes[c] = 0)
          /\ (nRefresh[c] = 1 /\ nAuth[c] = 1) =>
                swallowed[c].endpoint = "/v2/auth/refresh"
          /\ pc[c] \in TokenWaitPcs \cup LockedPcs \cup {"st_acquire"} =>
                nResource[c] = 0
          /\ (AfterEnsure(c) \/ nResource[c] > 0) =>
                /\ via[c] \in {"cached", "refresh", "auth"}
                /\ via[c] = "cached" => writes[c] = 0
                /\ via[c] \in {"refresh", "auth"} => writes[c] = 4
                /\ token[c] = NoToken
                /\ lock # c
          /\ via[c] = "failed" => nResource[c] = 0

\* An operation whose refresh call failed has authenticated, stored the
\* pair and is waiting for the answer to its resource request.
C29_Witness ==
    \E c \in Callers :
       /\ pc[c] = "rs_wait"
       /\ via[c] = "auth"
       /\ swallowed[c].endpoint = "/v2/auth/refresh"
       /\ nRefresh[c] = 1
       /\ nAuth[c] = 1
       /\ writes[c] = 4

\* Positions at which a task of the AsyncQPayClient can be suspended: no
\* operation under way, an awaited network call, the acquisition of the
\* lock.
AwaitPcs ==
    {"idle", "rs_wait", "rt_acquire", "en_acquire", "st_acquire"}
       \cup TokenWaitPcs

\* C30: in the AsyncQPayClient a task takes a step only while every other
\* task is at a network await or at the acquisition of the lock (or has no
\* operation under way); so from the return of a task's _ensure_token to
\* its read of self._access_token no other task takes a step and no token
\* field changes, and the bearer of its resource request is the access
\* token that was stored when its _ensure_token returned.
C30_AsyncBearerIsTokenAtEnsureReturn ==
    /\ [](\A c \in Callers :
             pc[c] = "build" =>
                \A d \in Callers \ {c} : pc[d] \in AwaitPcs /\ lock # d)
    /\ [][ \A c \in Callers :
             /\ pc'[c] # pc[c] =>
                   \A d \in Callers \ {c} : pc[d] \in AwaitPcs
             /\ pc[c] = "build" =>
                   /\ TokenState' = TokenState
                   /\ \A d \in Callers \ {c} :
                         pc'[d] = pc[d] /\ op'[d] = op[d]
                   /\ pc'[c] \in {"build", "rs_wait"}
                   /\ pc'[c] = "rs_wait" =>
                         req'[c] = ResourceRequest(access_token) ]_vars

\* A task is between the return of its _ensure_token and its header read,
\* holding a stored token, while another task awaits the answer of its
\* authenticate call.
C30_Witness ==
    \E c, d \in Callers :
       /\ pc[c] = "build"
       /\ access_token # ""
       /\ pc[d] = "en_auth_wait"

\* C31, as claimed: the access token of a resource request is one that its
\* caller found usable under the lock: when _ensure_token returns to a
\* caller the stored access token is non-empty with now < expiry - 30, and
\* from that return to the caller's read of self._access_token the stored
\* access token and its expiry are not replaced.
C31_AttachedTokenWasChecked ==
    [][ \A c \in Callers :
          /\ (pc[c] # "build" /\ pc'[c] = "build")
                => (access_token' # "" /\ now' < expires_at' - 30)
          /\ pc[c] = "build"
                => (access_token' = access_token /\ expires_at' = expires_at)
      ]_vars

\* C32, as claimed: for every status and every body from_response returns
\* a QPayError and raises nothing, and every response with a status outside
\* [200, 300), from any of the three kinds of endpoint, makes its handler
\* raise a QPayError.
C32_FromResponseNeverRaises ==
    /\ outcome.handler = "from_response" =>
          /\ outcome.result.state = "returned"
          /\ outcome.result.value.kind = "QPayError"
    /\ (/\ outcome.handler \in {"_do_request", "_do_basic_auth_request",
                                 "_do_refresh_token_http"}
        /\ (status_code < 200 \/ status_code >= 300))
          => /\ outcome.result.state = "raised"
             /\ outcome.result.error.kind = "QPayError"

\* C33: the two expiries stored with a pair are the expires_in and
\* refresh_expires_in of the response, as absolute instants, whatever the
\* clock shows at the store; the next _ensure_token that finds the pair of
\* a response with expires_in = e uses the access token iff it is non-empty
\* and now < e - 30, and goes to a token endpoint when e <= now + 30.
C33_ExpiryStoredVerbatim ==
    [][ \A c \in Callers :
          /\ StoreEnds(c) =>
                /\ expires_at' = token[c].expires_in
                /\ refresh_expires_at' = token[c].refresh_expires_in
                /\ expires_at' \in Expiries \cup {0}
                /\ refresh_expires_at' \in Expiries \cup {0}
          /\ Snapshot(c) =>
                \A i \in 1..Len(issued) :
                   TokenState = issued[i] =>
                      /\ pc'[c] = "build" <=>
                            /\ issued[i].access_token # ""
                            /\ now < issued[i].expires_in - 30
                      /\ issued[i].expires_in <= now + 30 =>
                            pc'[c] \in {"en_refresh_wait", "en_auth_wait"}
      ]_vars

\* The only response so far declared an expires_in that is not more than
\* 30 past the clock and a later refresh expiry; the operation that found
\* its pair stored has issued a refresh call.
C33_Witness ==
    \E c \in Callers :
       /\ pc[c] = "en_refresh_wait"
       /\ Len(issued) = 1
       /\ before[c] = issued[1]
       /\ issued[1].access_token # ""
       /\ issued[1].expires_in <= now + 30
       /\ TokenState = issued[1]

\* Positions at which a caller waits to enter a `with self._lock:` block.
AcquirePcs == {"rt_acquire", "en_acquire", "st_acquire"}

\* C34: provided every caller keeps running and every network call
\* returns, every operation that has begun ends with a result or an error;
\* a caller holds the lock exactly while it is inside a with block, so the
\* lock is free again after the early return of _ensure_token and after
\* every failure; no caller waits for the lock while it holds it; and
\* whenever an operation is under way some caller can take a step.
C34_TerminatesAndReleasesLock ==
    /\ [](\A c \in Callers :
             /\ lock = c <=> pc[c] \in LockedPcs
             /\ pc[c] \in AcquirePcs => lock # c
             /\ pc[c] \in {"idle", "build", "rs_wait"} \cup TokenWaitPcs
                   => lock # c)
    /\ []((\E c \in Callers : pc[c] # "idle")
             => ENABLED (\E c \in Callers : Step(c)))
    /\ \A c \in Callers :
          (pc[c] # "idle")
             ~> (pc[c] = "idle" /\ result[c].state \in {"returned", "raised"})

\* A caller waits for the lock that the other caller holds inside
\* _store_token.
C34_Witness ==
    \E c, d \in Callers :
       /\ pc[c] \in AcquirePcs
       /\ lock = d
       /\ pc[d] = "st_expires"

\* C35: while the authenticate endpoint answers every call with 2xx, no
\* authenticated operation fails in _ensure_token, whatever the refresh
\* endpoint answers and however the callers interleave: no operation ends
\* with the error of a token endpoint, and every operation that has begun
\* sends its resource request.
C35_RefreshFailureNeverFailsOperation ==
    /\ [](\A c \in Callers :
             op[c] = "request" =>
                /\ via[c] # "failed"
                /\ result[c].state = "raised" =>
                      result[c].error.endpoint = "resource"
                /\ swallowed[c] # NoError =>
                      /\ swallowed[c].endpoint = "/v2/auth/refresh"
                      /\ nAuth[c] = 1)
    /\ \A c \in Callers :
          (op[c] = "request" /\ pc[c] # "idle" /\ nResource[c] = 0)
             ~> (pc[c] = "rs_wait" /\ nResource[c] = 1)

\* Two operations are waiting for their resource answers: one renewed the
\* pair with its refresh call, the refresh call of the other failed and it
\* authenticated.
C35_Witness ==
    \E c, d \in Callers :
       /\ pc[c] = "rs_wait"
       /\ via[c] = "refresh"
       /\ pc[d] = "rs_wait"
       /\ via[d] = "auth"
       /\ swallowed[d].endpoint = "/v2/auth/refresh"
       /\ nRefresh[d] = 1
       /\ Len(issued) = 2

\* Positions inside _store_token.
StorePcs == {"st_access", "st_refresh", "st_expires", "st_refresh_expires"}

\* C36, as claimed: a store never replaces the stored pair by the pair of
\* a response that the server issued earlier than the stored one.
C36_NeverRegresses ==
    [][ \A c \in Callers :
          (pc[c] = "st_access" /\ pc'[c] # "st_access")
             => \A i, j \in 1..Len(issued) :
                   (/\ TokenState = issued[i]
                    /\ token[c] = issued[j]
                    /\ issued[i].access_token # ""
                    /\ issued[j].access_token # "")
                      => i <= j ]_vars

\* C36, amended: the last writer wins.  The four fields change only in
\* steps of the caller that holds the lock inside _store_token, and when
\* its store ends they are the pair of its response as a whole, replacing
\* whatever was stored, be it issued earlier or later.
C36_LastWriterWins ==
    [][ /\ TokenState' # TokenState =>
              \E c \in Callers :
                 /\ lock = c
                 /\ pc[c] \in StorePcs
                 /\ pc'[c] # pc[c]
        /\ \A c \in Callers :
              StoreEnds(c) =>
                 /\ TokenState' = token[c]
                 /\ lock' = Unlocked
                 /\ \E j \in 1..Len(issued) : TokenState' = issued[j] ]_vars

\* Both callers have stored their pairs and the lock is free: the pair
\* that is stored is that of the first response, the second response's
\* pair having been stored before it.
C36_Witness ==
    /\ lock = Unlocked
    /\ Len(issued) = 2
    /\ \A c \in Callers : writes[c] = 4 /\ pc[c] \notin StorePcs
    /\ issued[1].access_token # ""
    /\ issued[2].access_token # ""
    /\ TokenState = issued[1]

\* C37: the refresh token that the refresh call of _ensure_token carries
\* is the one read under the lock in the snapshot that also made the
\* validity check and the can_refresh decision; it is not read again when
\* the call is issued, whatever has been stored since.
C37_RefreshCallCarriesSnapshotToken ==
    [][ \A c \in Callers :
          /\ (Snapshot(c) /\ pc'[c] # "build")
                => /\ lock = c
                   /\ ensure_refresh_tok'[c] = refresh_token
                   /\ pc'[c] = "en_refresh_call" <=>
                         (refresh_token # ""
                            /\ now < refresh_expires_at - 30)
                   /\ req'[c] = NoRequest
          /\ pc[c] = "en_refresh_call"
                => /\ ensure_refresh_tok'[c] = ensure_refresh_tok[c]
                   /\ pc'[c] # pc[c] =>
                         /\ pc'[c] = "en_refresh_wait"
                         /\ req'[c] =
                               RefreshRequest(ensure_refresh_tok[c]) ]_vars

\* A refresh call of _ensure_token is in flight that carries the refresh
\* token of the snapshot although, when the call was issued, another
\* caller had already stored a different one.
C37_Witness ==
    \E c \in Callers :
       /\ pc[c] = "en_refresh_wait"
       /\ req[c].auth = ensure_refresh_tok[c]
       /\ before[c].refresh_token # ensure_refresh_tok[c]
       /\ before[c].refresh_token # ""

\* C38: refresh_token tests nothing before it sends: with an empty stored
\* refresh token, or one with now >= its expiry - 30, it still issues one
\* refresh call, whose bearer is that stored value, and it never issues an
\* authenticate call; when the call fails the caller has the error of the
\* refresh call and the step leaves the four fields as they were.
C38_RefreshTokenUnguarded ==
    /\ [][ \A c \in Callers :
             /\ (/\ pc[c] = "rt_read"
                 /\ pc'[c] # "rt_read"
                 /\ refresh_token = "" \/ now >= refresh_expires_at - 30)
                   => /\ pc'[c] = "rt_wait"
                      /\ req'[c].endpoint = "/v2/auth/refresh"
                      /\ req'[c].auth = refresh_token
                      /\ nRefresh'[c] = 1
                      /\ nAuth'[c] = 0
             /\ (/\ op[c] = "refresh_token"
                 /\ result'[c] # result[c]
                 /\ result'[c].state = "raised")
                   => /\ pc[c] = "rt_wait"
                      /\ result'[c].error.endpoint = "/v2/auth/refresh"
                      /\ TokenState' = TokenState
                      /\ nRefresh'[c] = 1
                      /\ nAuth'[c] = 0 ]_vars
    /\ [](\A c \in Callers :
             op[c] = "refresh_token" =>
                /\ pc[c] \in {"idle", "rt_acquire", "rt_read", "rt_wait",
                               "st_acquire"} \cup StorePcs
                /\ req[c].endpoint \in {"", "/v2/auth/refresh"})

\* refresh_token was called on a client that has never held a pair: its
\* one refresh call, with the empty bearer, was rejected, the caller has
\* the error and the fields are still empty.
C38_Witness ==
    \E c \in Callers :
       /\ op[c] = "refresh_token"
       /\ result[c].state = "raised"
       /\ result[c].error.endpoint = "/v2/auth/refresh"
       /\ nRefresh[c] = 1
       /\ nAuth[c] = 0
       /\ Len(issued) = 0
       /\ TokenState = NoToken

====
